---- MODULE Spec2Model ----
(***************************************************************************)
(* Verification model of the honda-cb550 charging stack:                   *)
(*   - helper/charging_profile.py : charging_control (CC/CV controller)    *)
(*   - helper/remap_pdos.py       : remap_rpdo / verify_rpdo / main        *)
(*   - deltaq_canopen.py          : simulator main, send_rpdos, heartbeat  *)
(*   - helper/deltaq_charger.py   : ChargerController thread and stop()    *)
(*   - deltaq_canopen.py          : sdo_download / bringup_sequence and     *)
(*                                  monitor_charger_state                  *)
(*   - helper/decode_ttl.py       : convert_full_msg                       *)
(*   - main_charging.py           : the BMS query / decode / tick loop     *)
(* Voltages and currents are carried in tenths (84.0 V = 840, 1.0 A = 10). *)
(***************************************************************************)
EXTENDS Integers, Sequences, FiniteSets, TLC

(***************************************************************************)
(* Bounds of the model.                                                    *)
(***************************************************************************)
MaxTicks == 3
\* update() calls made on one ChargerController
MaxUpdates == 2

(***************************************************************************)
(* charging_control constants (charging_profile.py:7-11), in tenths.       *)
(***************************************************************************)
NUM_CELLS == 20
CELL_MAX_VOLTAGE == 42
PACK_MAX_VOLTAGE == NUM_CELLS * CELL_MAX_VOLTAGE
CHARGE_CURRENT_CC == 100
CHARGE_CURRENT_CUTOFF == 10
\* the literal .2 added to PACK_MAX_VOLTAGE at line 35
CC_VOLTAGE_MARGIN == 2
\* the literal 5 added to CHARGE_CURRENT_CC at line 42
CV_CURRENT_EXTRA == 50

\* Telemetry values a caller may pass (tenths): below, at and above the
\* 84.0 V pack maximum, the 100.8 V of the source comment, and currents
\* around the 1.0 A cutoff.
Voltages == {0, 839, 840, 841, 1008}
Currents == {0, 9, 10, 11, 100}

VARIABLES
  self,      \* charging_control instance: charging, stage, pack_voltage, charge_current
  call,      \* the last call made on the controller: op, arguments, state before, outcome
  cmd,       \* the last of start_charging / stop_charging called ("none" before any)
  cmdPre,    \* self.charging when that last start/stop was called
  ticks,     \* run_update calls made by the caller since cmd changed
  sawFull    \* since the last start, some run_update ran while charging with
             \* pack_voltage >= PACK_MAX_VOLTAGE

ccVars == <<self, call, cmd, cmdPre, ticks, sawFull>>

\* helper/remap_pdos.py
VARIABLES
  cfg,       \* the tool's inputs: node_id, save flag, the remap calls made and
             \* whether the charger's RPDOs start out enabled
  dev,       \* the charger's object dictionary, per RPDO number:
             \* cobid, ttype, count and the mapping subindices 1..8
  log,       \* every request put on the bus, in order, with its outcome
  rm,        \* the activation of remap_rpdo: arguments, position, total_bits
  mpc,       \* position of main()
  exc        \* the exception main() is unwinding with ("none" if none)

remapVars == <<cfg, dev, log, rm, mpc, exc>>

\* deltaq_canopen.py (battery simulator) and helper/deltaq_charger.py
\* (ChargerController): the threads that share one CAN bus
VARIABLES
  scfg,         \* which program runs, and ChargerController's read_only argument
  bus,          \* the can.Bus handle: "open" until bus.shutdown()
  hb_task,      \* the send_periodic heartbeat task the program holds: "unset",
                \* "running", "stopped"; "leaked_running" / "leaked_stopped"
                \* when an earlier task, no longer held, is still sending
  stop_ev,      \* simulator: the threading.Event stop_ev
  s_pc,         \* simulator: position of main()
  r_pc,         \* simulator: position of the send_rpdos thread
  counter,      \* simulator: send_rpdos' rolling counter
  running,      \* ChargerController._running
  nmt_started,  \* ChargerController.nmt_started ("unset" until first assigned)
  c_pc,         \* ChargerController: position of the thread that calls its methods
  t_pc,         \* ChargerController: position of run()
  wire          \* frames seen on the bus: the last one, and whether one was sent
                \* (late) or attempted (lateTry) after the stop call had returned;
                \* whether a zero-setpoint / not-ready frame has gone out (zero);
                \* the setpoints of the last RPDO1 frame; whether a send_rpdos
                \* transmit has failed (dropped) and one has succeeded since (resumed)

stopVars == <<scfg, bus, hb_task, stop_ev, s_pc, r_pc, counter, running,
              nmt_started, c_pc, t_pc, wire>>

\* deltaq_canopen.py monitor_charger_state
VARIABLES
  mon           \* the monitor thread: its position, its local last_state, the
                \* last heartbeat byte it handled with last_state before it,
                \* and what its last recv returned (rx) with last_state before it

monVars == <<mon>>

\* helper/deltaq_charger.py: the setpoints shared between update() and run()
VARIABLES
  hb,           \* the last heartbeat process_received_message recorded, the
                \* one before it, whether handling it put an NMT Start on the
                \* bus, the heartbeat run() is handling (cur) and whether one
                \* ended run() with an exception (fatal)
  setp,         \* self.volts / self.amps, each with the update() call that
                \* wrote it (0: the constructor), and the number of calls made
  snap          \* run()'s locals volts / amps of lines 145-146, once taken,
                \* each with the update() call that wrote the value read (vby,
                \* aby) and the number of update() calls made when it was
                \* read (vat, aat)

ctlVars == <<hb, setp, snap>>

\* deltaq_canopen.py sdo_download / bringup_sequence against the charger's
\* SDO server
VARIABLES
  bup,          \* bringup_sequence: its position and its arguments vreq, ireq
  pending,      \* requests on the bus the charger has not answered yet
  answers,      \* the charger's responses, which nothing reads
  sdo_call      \* the last sdo_download call: its arguments, its outcome, the
                \* frame it sent (COB-ID, data, how many) and what was pending
                \* when it was entered

sdoVars == <<bup, pending, answers, sdo_call>>

\* helper/decode_ttl.py
VARIABLES
  dec           \* the last convert_full_msg call: its argument and its outcome

decVars == <<dec>>

\* main_charging.py
VARIABLES
  lp            \* main(): position, the locals response and charging_control,
                \* what the current cycle has done so far (steps, in order) and
                \* whether stop_charging has been called

loopVars == <<lp>>

\* deltaq_canopen.py send_rpdos / helper/deltaq_charger.py send_0x20a: the
\* encoding of the RPDO1 payload
VARIABLES
  enc           \* the last payload encoded: the function, its arguments (soc,
                \* vreq and ireq in tenths), the counter it read and its outcome

encVars == <<enc>>

\* what each component's steps leave alone
notCC == <<remapVars, stopVars, monVars, ctlVars, sdoVars, decVars, loopVars, encVars>>
notRemap == <<ccVars, stopVars, monVars, ctlVars, sdoVars, decVars, loopVars, encVars>>
notStop == <<ccVars, remapVars, monVars, ctlVars, sdoVars, decVars, loopVars, encVars>>
notStopMon == <<ccVars, remapVars, ctlVars, sdoVars, decVars, loopVars, encVars>>
notStopCtl == <<ccVars, remapVars, monVars, sdoVars, decVars, loopVars, encVars>>
notSdo == <<ccVars, remapVars, stopVars, monVars, ctlVars, decVars, loopVars, encVars>>
notDec == <<ccVars, remapVars, stopVars, monVars, ctlVars, sdoVars, loopVars, encVars>>
notLoop == <<ccVars, remapVars, stopVars, monVars, ctlVars, sdoVars, decVars, encVars>>
notEnc == <<ccVars, remapVars, stopVars, monVars, ctlVars, sdoVars, decVars, loopVars>>

(***************************************************************************)
(* Outcomes of a call: a returned (current, voltage) pair or an exception. *)
(***************************************************************************)
Return(cur, volt) == [kind |-> "return", cur |-> cur, volt |-> volt]
Raise(name) == [kind |-> name, cur |-> 0, volt |-> 0]
NoOutcome == [kind |-> "none", cur |-> 0, volt |-> 0]

\* A local name that is read before any assignment in its function.
UNBOUND == "<unbound local>"

\* charging_control.__init__
ControllerInit ==
  [charging |-> FALSE, stage |-> "CC", pack_voltage |-> 0, charge_current |-> 0]

\* run_update that resumes charging by itself when it finds charging off
RunUpdateAutoStart(s, stage_local, pack_voltage, charge_current) ==
  [self |-> [s EXCEPT !.charging = TRUE],
   ret  |-> Return(CHARGE_CURRENT_CC, PACK_MAX_VOLTAGE + CC_VOLTAGE_MARGIN)]

\* run_update without the `if self.charging` guard of line 33
RunUpdateNoChargingGuard(s, stage_local, pack_voltage, charge_current) ==
  IF stage_local = UNBOUND
  THEN [self |-> s, ret |-> Raise("UnboundLocalError")]
  ELSE [self |-> s,
        ret  |-> Return(CHARGE_CURRENT_CC, PACK_MAX_VOLTAGE + CC_VOLTAGE_MARGIN)]

\* stop_charging that forgets line 25
StopChargingKeepsCharging(s) ==
  [s EXCEPT !.pack_voltage = 0, !.charge_current = 0]

\* charging_control.stop_charging
StopCharging(s) ==
  [s EXCEPT !.charging = FALSE, !.pack_voltage = 0, !.charge_current = 0]

\* charging_control.run_update, lines 30-48, for a given binding of the
\* function's local name `stage`.  The name is assigned at line 38, which
\* makes it local to run_update; self.stage is never read or written here.
RunUpdateBody(s, stage_local, pack_voltage, charge_current) ==
  IF s.charging
  THEN IF stage_local = UNBOUND
       THEN \* line 34 reads the local before it is bound
            [self |-> s, ret |-> Raise("UnboundLocalError")]
       ELSE IF stage_local = "CC"
       THEN \* lines 35-38: the assignment at 38 binds the local only
            [self |-> s,
             ret  |-> Return(CHARGE_CURRENT_CC, PACK_MAX_VOLTAGE + CC_VOLTAGE_MARGIN)]
       ELSE IF stage_local = "CV"
       THEN IF charge_current <= CHARGE_CURRENT_CUTOFF
            THEN [self |-> StopCharging(s), ret |-> Return(0, 0)]
            ELSE [self |-> s,
                  ret  |-> Return(CHARGE_CURRENT_CC + CV_CURRENT_EXTRA, PACK_MAX_VOLTAGE)]
       ELSE [self |-> s, ret |-> Return(0, 0)]
  ELSE [self |-> s, ret |-> Return(0, 0)]

\* charging_control.run_update as called: the local `stage` is unbound on entry.
RunUpdate(s, pack_voltage, charge_current) ==
  RunUpdateBody(s, UNBOUND, pack_voltage, charge_current)

\* charging_control.start_charging: sets charging, then runs one update whose
\* outcome (return value discarded, exception propagated) ends the call.
StartCharging(s, pack_voltage, charge_current) ==
  LET r == RunUpdate([s EXCEPT !.charging = TRUE], pack_voltage, charge_current)
  IN [self |-> r.self,
      ret  |-> IF r.ret.kind = "return" THEN NoOutcome ELSE r.ret]

Full(s, pack_voltage) == s.charging /\ pack_voltage >= PACK_MAX_VOLTAGE

(***************************************************************************)
(* Actions of the controller's caller.                                     *)
(***************************************************************************)
Start ==
  \E v \in Voltages, i \in Currents :
    LET r == StartCharging(self, v, i) IN
      /\ self' = r.self
      /\ call' = [op |-> "start", argV |-> v, argI |-> i, pre |-> self,
                  preFull |-> sawFull, ret |-> r.ret]
      /\ cmd' = "start"
      /\ cmdPre' = self.charging
      /\ ticks' = 0
      /\ sawFull' = (v >= PACK_MAX_VOLTAGE)
      /\ UNCHANGED notCC

Stop ==
  /\ self' = StopCharging(self)
  /\ call' = [op |-> "stop", argV |-> 0, argI |-> 0, pre |-> self,
              preFull |-> sawFull, ret |-> NoOutcome]
  /\ cmd' = "stop"
  /\ cmdPre' = self.charging
  /\ ticks' = 0
  /\ sawFull' = FALSE
  /\ UNCHANGED notCC

Tick ==
  /\ ticks < MaxTicks
  /\ \E v \in Voltages, i \in Currents :
       LET r == RunUpdate(self, v, i) IN
         /\ self' = r.self
         /\ call' = [op |-> "tick", argV |-> v, argI |-> i, pre |-> self,
                     preFull |-> sawFull, ret |-> r.ret]
         /\ sawFull' = (sawFull \/ Full(self, v))
  /\ ticks' = ticks + 1
  /\ UNCHANGED <<cmd, cmdPre>>
  /\ UNCHANGED notCC

InitCC ==
  /\ self = ControllerInit
  /\ call = [op |-> "init", argV |-> 0, argI |-> 0, pre |-> ControllerInit,
             preFull |-> FALSE, ret |-> NoOutcome]
  /\ cmd = "none"
  /\ cmdPre = FALSE
  /\ ticks = 0
  /\ sawFull = FALSE

NextCC == Start \/ Stop \/ Tick


(***************************************************************************)
(* helper/remap_pdos.py: the RPDO remap tool.                              *)
(* 32-bit object values are carried as two 16-bit halves [hi, lo], so that *)
(* bit 31 of a COB-ID and a full mapping word stay exact.                  *)
(***************************************************************************)

W(hi, lo) == [hi |-> hi, lo |-> lo]
\* a Python int below 2^31 as a 32-bit value
ToW(n) == W(n \div 65536, n % 65536)

RECURSIVE BitOr(_, _)
BitOr(a, b) ==
  IF a = 0 THEN b
  ELSE IF b = 0 THEN a
  ELSE (IF a % 2 = 1 \/ b % 2 = 1 THEN 1 ELSE 0) + 2 * BitOr(a \div 2, b \div 2)

\* cobid | 0x80000000  (0x8000 in the high half)
SetBit31(w) == W(BitOr(w.hi, 32768), w.lo)
Bit31(w) == (w.hi \div 32768) % 2 = 1

\* BATTERY_CURRENT_ENTRY = (0x6070, 0x00, 16)
BATTERY_CURRENT_ENTRY == <<24688, 0, 16>>
\* RPDO1_ENTRIES: 0x6081:00/8, 0x2271:00/32, 0x6070:00/16, 0x6000:00/8
RPDO1_ENTRIES == << <<24705, 0, 8>>, <<8817, 0, 32>>, BATTERY_CURRENT_ENTRY, <<24576, 0, 8>> >>
\* RPDO2_ENTRIES: 0x6060:00/32, 0x6010:00/16, 0x6070:00/16
RPDO2_ENTRIES == << <<24672, 0, 32>>, <<24592, 0, 16>>, BATTERY_CURRENT_ENTRY >>
\* TRANSMISSION_TYPE = 0xFF
TRANSMISSION_TYPE == 255
\* 0x1400, 0x1600: RPDO communication / mapping parameter bases
COMM_BASE == 5120
MAP_BASE == 5632
\* 0x200, 0x300: COB-ID bases of RPDO1 / RPDO2 in main()
RPDO1_COB_BASE == 512
RPDO2_COB_BASE == 768
\* the 64-bit limit of a PDO, line 77
PDO_MAX_BITS == 64

\* map_entry: (index << 16) | (subindex << 8) | (bitlen & 0xFF)
map_entry(index, subindex, bitlen) ==
  LET shifted == subindex * 256 IN
    W(BitOr(index, shifted \div 65536), BitOr(shifted % 65536, bitlen % 256))

\* a decoding that takes the low byte for the subindex and the next for
\* the bit length
DecodeEntryBytesSwapped(raw) == << raw.hi % 65536, raw.lo % 256, (raw.lo \div 256) % 256 >>

\* the decoding of verify_rpdo, lines 94-96
DecodeEntry(raw) == << raw.hi % 65536, (raw.lo \div 256) % 256, raw.lo % 256 >>

\* The calls main() makes, lines 160-165.
MainPlan(node_id) ==
  << [rpdo |-> 0, cobid |-> RPDO1_COB_BASE + node_id, tx |-> TRANSMISSION_TYPE,
      entries |-> RPDO1_ENTRIES],
     [rpdo |-> 1, cobid |-> RPDO2_COB_BASE + node_id, tx |-> TRANSMISSION_TYPE,
      entries |-> RPDO2_ENTRIES] >>

\* Field lists handed to remap_rpdo beyond main()'s two: one of 80 bits, one
\* with a subindex and a short one.
OverflowEntries == RPDO1_ENTRIES \o <<BATTERY_CURRENT_ENTRY>>
ShortEntries == << <<24592, 3, 16>>, BATTERY_CURRENT_ENTRY >>

Plans(node_id) ==
  { MainPlan(node_id),
    << [rpdo |-> 0, cobid |-> RPDO1_COB_BASE + node_id, tx |-> TRANSMISSION_TYPE,
        entries |-> OverflowEntries] >>,
    << [rpdo |-> 1, cobid |-> RPDO2_COB_BASE + node_id, tx |-> 1,
        entries |-> ShortEntries] >> }

NodeIds == {10, 1}

NoEntry == W(0, 0)
DevPdo(enabled, cobid) ==
  [cobid |-> IF enabled THEN ToW(cobid) ELSE SetBit31(ToW(cobid)),
   ttype |-> 254, count |-> 1,
   map |-> [i \in 1..8 |-> IF i = 1 THEN map_entry(24705, 0, 8) ELSE NoEntry]]

Event(kind, idx, sub, val, ok) ==
  [kind |-> kind, idx |-> idx, sub |-> sub, val |-> val, ok |-> ok]

Idle == [active |-> FALSE, call |-> 0, rpdo |-> 0, cobid |-> 0, tx |-> 0, entries |-> <<>>,
         phase |-> "idle", i |-> 0, total_bits |-> 0, began |-> 0, cobidBefore |-> NoEntry]

\* Entry into remap_rpdo (lines 64-65): nothing written yet.
Activation(k, c, d, n) ==
  [active |-> TRUE, call |-> k, rpdo |-> c.rpdo, cobid |-> c.cobid, tx |-> c.tx,
   entries |-> c.entries, phase |-> "disable", i |-> 0, total_bits |-> 0,
   began |-> n, cobidBefore |-> d[c.rpdo].cobid]

comm_idx(r) == COMM_BASE + r.rpdo
map_idx(r) == MAP_BASE + r.rpdo

\* The SDO write remap_rpdo is about to issue, by position.
PendingWrite(r) ==
  CASE r.phase = "disable" -> [idx |-> comm_idx(r), sub |-> 1, val |-> SetBit31(ToW(r.cobid))]
    [] r.phase = "ttype"   -> [idx |-> comm_idx(r), sub |-> 2, val |-> ToW(r.tx)]
    [] r.phase = "clear"   -> [idx |-> map_idx(r), sub |-> 0, val |-> ToW(0)]
    [] r.phase = "entries" ->
         LET e == r.entries[r.i] IN
           [idx |-> map_idx(r), sub |-> r.i, val |-> map_entry(e[1], e[2], e[3])]
    [] r.phase = "count"   -> [idx |-> map_idx(r), sub |-> 0, val |-> ToW(Len(r.entries))]
    [] r.phase = "enable"  -> [idx |-> comm_idx(r), sub |-> 1, val |-> ToW(r.cobid)]

\* Entering the loop body for entry i (lines 75-76): total_bits += blen.
EnterEntry(r, i) ==
  [r EXCEPT !.phase = "entries", !.i = i, !.total_bits = r.total_bits + r.entries[i][3]]

\* remap_rpdo re-enabling the PDO before the mapping is written
AfterWriteEnableEarly(r) ==
  CASE r.phase = "disable" -> [r EXCEPT !.phase = "enable"]
    [] r.phase = "enable"  -> [r EXCEPT !.phase = "ttype"]
    [] r.phase = "ttype"   -> [r EXCEPT !.phase = "clear", !.total_bits = 0]
    [] r.phase = "clear"   ->
         IF Len(r.entries) >= 1 THEN EnterEntry([r EXCEPT !.total_bits = 0], 1)
         ELSE [r EXCEPT !.phase = "count"]
    [] r.phase = "entries" ->
         IF r.i < Len(r.entries) THEN EnterEntry(r, r.i + 1)
         ELSE [r EXCEPT !.phase = "count"]
    [] r.phase = "count"   -> [r EXCEPT !.phase = "returned"]

\* Control flow of remap_rpdo after a write that completed (lines 68-83).
AfterWrite(r) ==
  CASE r.phase = "disable" -> [r EXCEPT !.phase = "ttype"]
    [] r.phase = "ttype"   -> [r EXCEPT !.phase = "clear"]
    [] r.phase = "clear"   ->
         IF Len(r.entries) >= 1 THEN EnterEntry([r EXCEPT !.total_bits = 0], 1)
         ELSE [r EXCEPT !.phase = "count", !.total_bits = 0]
    [] r.phase = "entries" ->
         IF r.i < Len(r.entries) THEN EnterEntry(r, r.i + 1)
         ELSE [r EXCEPT !.phase = "count"]
    [] r.phase = "count"   -> [r EXCEPT !.phase = "enable"]
    [] r.phase = "enable"  -> [r EXCEPT !.phase = "returned"]

\* an abort that is swallowed, the function carrying on with its next write
AfterAbortCarryOn(r) == AfterWrite(r)

\* An aborted write raises SdoAbortedError out of remap_rpdo: nothing in
\* lines 64-83 catches it.
AfterAbort(r) == [r EXCEPT !.phase = "aborted"]

\* a loop without the check of line 77
OverflowsUnchecked(r) == FALSE

\* The check of line 77 fails for the entry just entered.
Overflows(r) == r.phase = "entries" /\ r.total_bits > PDO_MAX_BITS

Writing(r) ==
  /\ r.active
  /\ r.phase \in {"disable", "ttype", "clear", "entries", "count", "enable"}
  /\ ~Overflows(r)

\* The device storing a completed write.
DevStore(d, n, w) ==
  IF w.idx = COMM_BASE + n
  THEN IF w.sub = 1 THEN [d EXCEPT ![n].cobid = w.val]
       ELSE [d EXCEPT ![n].ttype = w.val.lo]
  ELSE IF w.sub = 0 THEN [d EXCEPT ![n].count = w.val.lo]
       ELSE [d EXCEPT ![n].map[w.sub] = w.val]

(***************************************************************************)
(* Actions of the remap tool.                                              *)
(***************************************************************************)
\* lines 151-156 and the first call of line 160
MainPreOp ==
  /\ mpc = "preop"
  /\ log' = Append(log, Event("nmt", 0, 0, NoEntry, TRUE))
  /\ rm' = Activation(1, cfg.plan[1], dev, Len(log) + 1)
  /\ mpc' = "remap"
  /\ UNCHANGED <<cfg, dev, exc>>
  /\ UNCHANGED notRemap

\* node.sdo[...][...].raw = value, acknowledged by the device
SdoWriteOk ==
  /\ mpc = "remap" /\ Writing(rm)
  /\ LET w == PendingWrite(rm) IN
       /\ log' = Append(log, Event("write", w.idx, w.sub, w.val, TRUE))
       /\ dev' = DevStore(dev, rm.rpdo, w)
  /\ rm' = AfterWrite(rm)
  /\ UNCHANGED <<cfg, mpc, exc>>
  /\ UNCHANGED notRemap

\* node.sdo[...][...].raw = value, aborted by the device
SdoWriteAbort ==
  /\ mpc = "remap" /\ Writing(rm)
  /\ LET w == PendingWrite(rm) IN
       log' = Append(log, Event("write", w.idx, w.sub, w.val, FALSE))
  /\ rm' = AfterAbort(rm)
  /\ UNCHANGED <<cfg, dev, mpc, exc>>
  /\ UNCHANGED notRemap

\* line 78: raise ValueError
RemapOverflow ==
  /\ mpc = "remap" /\ rm.active /\ Overflows(rm)
  /\ rm' = [rm EXCEPT !.phase = "valueerror"]
  /\ UNCHANGED <<cfg, dev, log, mpc, exc>>
  /\ UNCHANGED notRemap

\* remap_rpdo has returned: the next call of main(), or on to verify
MainAfterRemap ==
  /\ mpc = "remap" /\ rm.phase = "returned"
  /\ IF rm.call < Len(cfg.plan)
     THEN /\ rm' = Activation(rm.call + 1, cfg.plan[rm.call + 1], dev, Len(log))
          /\ UNCHANGED mpc
     ELSE /\ mpc' = "verify"
          /\ UNCHANGED rm
  /\ UNCHANGED <<cfg, dev, log, exc>>
  /\ UNCHANGED notRemap

\* a main() that swallows the exception of a call and makes its next call
MainRaisedMakesNextCall ==
  /\ mpc = "remap" /\ rm.phase \in {"aborted", "valueerror"}
  /\ IF rm.call < Len(cfg.plan)
     THEN /\ rm' = Activation(rm.call + 1, cfg.plan[rm.call + 1], dev, Len(log))
          /\ UNCHANGED <<mpc, exc>>
     ELSE /\ exc' = IF rm.phase = "aborted" THEN "SdoAbortedError" ELSE "ValueError"
          /\ mpc' = "finally"
          /\ UNCHANGED rm
  /\ UNCHANGED <<cfg, dev, log>>
  /\ UNCHANGED notRemap

\* remap_rpdo raised: lines 176-179 for an abort, nothing for a ValueError;
\* either way on to the finally block
MainRaised ==
  /\ mpc = "remap" /\ rm.phase \in {"aborted", "valueerror"}
  /\ exc' = IF rm.phase = "aborted" THEN "SdoAbortedError" ELSE "ValueError"
  /\ mpc' = "finally"
  /\ UNCHANGED <<cfg, dev, log, rm>>
  /\ UNCHANGED notRemap

\* verify_rpdo, lines 85-98, against the device d: COB-ID, transmission
\* type, and the entries at subindices 1..count, decoded
verify_rpdo(d, rpdo_number) ==
  [cobid |-> d[rpdo_number].cobid,
   ttype |-> d[rpdo_number].ttype,
   entries |-> [i \in 1..d[rpdo_number].count |-> DecodeEntry(d[rpdo_number].map[i])]]

\* lines 168-171: both read-backs complete; the event keeps what they
\* returned, RPDO1's first
MainVerify ==
  /\ mpc = "verify"
  /\ log' = Append(log, Event("verify", 0, 0,
                              <<verify_rpdo(dev, 0), verify_rpdo(dev, 1)>>, TRUE))
  /\ mpc' = IF cfg.save THEN "save" ELSE "finally"
  /\ UNCHANGED <<cfg, dev, rm, exc>>
  /\ UNCHANGED notRemap

\* lines 168-169: a read-back is aborted
MainVerifyAbort ==
  /\ mpc = "verify"
  /\ log' = Append(log, Event("verify", 0, 0, NoEntry, FALSE))
  /\ exc' = "SdoAbortedError"
  /\ mpc' = "finally"
  /\ UNCHANGED <<cfg, dev, rm>>
  /\ UNCHANGED notRemap

\* lines 173-174: store_parameters, which handles its own aborts
MainSave ==
  /\ mpc = "save"
  /\ \E ok \in BOOLEAN : log' = Append(log, Event("store", 4112, 1, NoEntry, ok))
  /\ mpc' = "finally"
  /\ UNCHANGED <<cfg, dev, rm, exc>>
  /\ UNCHANGED notRemap

\* lines 180-185: back to OPERATIONAL, then the pending exception goes on
MainFinally ==
  /\ mpc = "finally"
  /\ log' = Append(log, Event("nmt", 1, 0, NoEntry, TRUE))
  /\ mpc' = "exit"
  /\ UNCHANGED <<cfg, dev, rm, exc>>
  /\ UNCHANGED notRemap

InitRemapWith(c) ==
  /\ cfg = c
  /\ dev = [n \in {0, 1} |->
              DevPdo(c.enabled, (IF n = 0 THEN RPDO1_COB_BASE ELSE RPDO2_COB_BASE) + c.node_id)]
  /\ log = <<>>
  /\ rm = Idle
  /\ mpc = "preop"
  /\ exc = "none"

InitRemap ==
  \E id \in NodeIds, sv \in BOOLEAN, en \in BOOLEAN :
    \E pl \in Plans(id) :
      InitRemapWith([node_id |-> id, save |-> sv, enabled |-> en, plan |-> pl])

RemapParked ==
  InitRemapWith([node_id |-> 10, save |-> FALSE, enabled |-> TRUE, plan |-> MainPlan(10)])

NextRemap ==
  \/ MainPreOp \/ SdoWriteOk \/ SdoWriteAbort \/ RemapOverflow
  \/ MainAfterRemap \/ MainRaised \/ MainVerify \/ MainVerifyAbort
  \/ MainSave \/ MainFinally

(***************************************************************************)
(* deltaq_canopen.py main() / send_rpdos and helper/deltaq_charger.py      *)
(* ChargerController: periodic producers against the stop path.            *)
(***************************************************************************)
\* COB-ID base of SDO requests and the charger's node id, lines 35 and 27
SDO_CLIENT_TO_SERVER == 1536
CHARGER_NODE_ID == 10

\* (counter + 1) & 0xFF
COUNTER_MODULUS == 256

\* send_rpdos' defaults vreq=82.0, ireq=5.0, with which main() starts it
RPDO_VREQ == 820
RPDO_IREQ == 50

\* The stop call has returned to its caller.
StopReturned ==
  \/ scfg.prog = "simulator" /\ s_pc = "done"
  \/ scfg.prog = "controller" /\ c_pc = "returned"

\* A frame goes out on the bus.
Transmitted(kind) ==
  [wire EXCEPT !.last = kind, !.late = @ \/ StopReturned, !.lateTry = @ \/ StopReturned]

\* bus.send raised: nothing goes out.
NotTransmitted == [wire EXCEPT !.lateTry = @ \/ StopReturned]

\* a stop path that leaves the bus open
BusLeftOpen == "open"

\* bus.shutdown()
BusShutdown == "closed"

\* a main() that starts both threads at once, ahead of the NMT Start
SimStartHeartbeatAndRpdo ==
  /\ scfg.prog = "simulator" /\ s_pc = "init"
  /\ hb_task' = "running"
  /\ mon' = [mon EXCEPT !.pc = "check"]
  /\ r_pc' = "check"
  /\ s_pc' = "nmt"
  /\ UNCHANGED <<scfg, bus, stop_ev, counter, running, nmt_started, c_pc, t_pc, wire>>
  /\ UNCHANGED notStopMon

\* --- simulator main(), lines 262-295 ---
\* lines 263-271: bus, stop_ev, heartbeat task, threads created,
\* monitor_thr.start()
SimStartHeartbeat ==
  /\ scfg.prog = "simulator" /\ s_pc = "init"
  /\ hb_task' = "running"
  /\ mon' = [mon EXCEPT !.pc = "check"]
  /\ s_pc' = "nmt"
  /\ UNCHANGED <<scfg, bus, stop_ev, r_pc, counter, running, nmt_started, c_pc, t_pc, wire>>
  /\ UNCHANGED notStopMon

\* lines 273-277: nmt_start_charger(bus)
SimNmtStart ==
  /\ scfg.prog = "simulator" /\ s_pc = "nmt"
  /\ wire' = [Transmitted("nmt") EXCEPT !.nmt = TRUE]
  /\ s_pc' = "sleep"
  /\ UNCHANGED <<scfg, bus, hb_task, stop_ev, r_pc, counter, running, nmt_started, c_pc, t_pc>>
  /\ UNCHANGED notStop

\* line 274 with bus.send (line 96) raising can.CanError: the call is
\* outside the try of line 285, so main() ends there with the exception;
\* nothing of lines 277-295 runs (no stop_ev.set(), no hb_task.stop(), no
\* bus.shutdown()) and the sender thread is never started
SimNmtStartFails ==
  /\ scfg.prog = "simulator" /\ s_pc = "nmt"
  /\ wire' = NotTransmitted
  /\ s_pc' = "raised"
  /\ UNCHANGED <<scfg, bus, hb_task, stop_ev, r_pc, counter, running, nmt_started, c_pc, t_pc>>
  /\ UNCHANGED notStop

\* lines 263-283: KeyboardInterrupt before the try of line 285 is entered:
\* main() ends with it, without the finally block.  During lines 263-271
\* the heartbeat task may already have been started (line 266) and the
\* monitor thread not yet; during lines 277-283 the sender thread may
\* already have been started (line 282).
SimInterruptEarly ==
  /\ scfg.prog = "simulator"
  /\ \/ s_pc = "init" /\ hb_task' \in {hb_task, "running"} /\ UNCHANGED r_pc
     \/ s_pc = "nmt" /\ UNCHANGED <<hb_task, r_pc>>
     \/ s_pc = "sleep" /\ r_pc' \in {r_pc, "check"} /\ UNCHANGED hb_task
  /\ s_pc' = "raised"
  /\ UNCHANGED <<scfg, bus, stop_ev, counter, running, nmt_started, c_pc, t_pc, wire>>
  /\ UNCHANGED notStop

\* line 282: rpdo_thr.start()
SimStartRpdo ==
  /\ scfg.prog = "simulator" /\ s_pc = "sleep"
  /\ r_pc' = "check"
  /\ s_pc' = "loop"
  /\ UNCHANGED <<scfg, bus, hb_task, stop_ev, counter, running, nmt_started, c_pc, t_pc, wire>>
  /\ UNCHANGED notStop

\* lines 285-289: KeyboardInterrupt ends the idle loop
SimInterrupt ==
  /\ scfg.prog = "simulator" /\ s_pc = "loop"
  /\ s_pc' = "set_stop"
  /\ UNCHANGED <<scfg, bus, hb_task, stop_ev, r_pc, counter, running, nmt_started, c_pc, t_pc, wire>>
  /\ UNCHANGED notStop

\* line 291: stop_ev.set()
SimSetStop ==
  /\ scfg.prog = "simulator" /\ s_pc = "set_stop"
  /\ stop_ev' = TRUE
  /\ s_pc' = "hb_stop"
  /\ UNCHANGED <<scfg, bus, hb_task, r_pc, counter, running, nmt_started, c_pc, t_pc, wire>>
  /\ UNCHANGED notStop

\* line 292: hb_task.stop()
SimHbStop ==
  /\ scfg.prog = "simulator" /\ s_pc = "hb_stop"
  /\ hb_task' = "stopped"
  /\ s_pc' = "join_rpdo"
  /\ UNCHANGED <<scfg, bus, stop_ev, r_pc, counter, running, nmt_started, c_pc, t_pc, wire>>
  /\ UNCHANGED notStop

\* lines 293-294: the joins return when the thread has ended or after their
\* 1.0 s timeout, whichever comes first
SimJoinRpdo ==
  /\ scfg.prog = "simulator" /\ s_pc = "join_rpdo"
  /\ s_pc' = "shutdown"
  /\ UNCHANGED <<scfg, bus, hb_task, stop_ev, r_pc, counter, running, nmt_started, c_pc, t_pc, wire>>
  /\ UNCHANGED notStop

\* line 295: bus.shutdown(), the end of the finally block
SimShutdown ==
  /\ scfg.prog = "simulator" /\ s_pc = "shutdown"
  /\ bus' = BusShutdown
  /\ s_pc' = "done"
  /\ UNCHANGED <<scfg, hb_task, stop_ev, r_pc, counter, running, nmt_started, c_pc, t_pc, wire>>
  /\ UNCHANGED notStop

\* lines 290-295: a further KeyboardInterrupt inside the finally block (before
\* stop_ev.set(), before hb_task.stop(), during one of the joins or before
\* bus.shutdown()): main() ends with it and the rest of the block is not run
SimInterruptFinally ==
  /\ scfg.prog = "simulator"
  /\ s_pc \in {"set_stop", "hb_stop", "join_rpdo", "shutdown"}
  /\ s_pc' = "raised"
  /\ UNCHANGED <<scfg, bus, hb_task, stop_ev, r_pc, counter, running, nmt_started, c_pc, t_pc, wire>>
  /\ UNCHANGED notStop

\* --- send_rpdos thread, lines 194-255 ---
\* a loop that does not look at stop_ev
RpdoCheckIgnoresStop ==
  /\ r_pc = "check"
  /\ r_pc' = "send"
  /\ UNCHANGED <<scfg, bus, hb_task, stop_ev, s_pc, counter, running, nmt_started, c_pc, t_pc, wire>>
  /\ UNCHANGED notStop

\* line 194: while not stop_ev.is_set()
RpdoCheck ==
  /\ r_pc = "check"
  /\ r_pc' = IF stop_ev THEN "exited" ELSE "send"
  /\ UNCHANGED <<scfg, bus, hb_task, stop_ev, s_pc, counter, running, nmt_started, c_pc, t_pc, wire>>
  /\ UNCHANGED notStop

\* lines 198-201: the Battery_Status byte of a pass, from the loop's counter
BattStatusU8(count) == IF count = 0 THEN 0 ELSE 1

\* lines 196-253: build the payloads from the thread's arguments,
\* bus.send(msg1) goes out, counter += 1
RpdoSend ==
  /\ r_pc = "send" /\ bus = "open"
  /\ wire' = [Transmitted("rpdo1") EXCEPT !.setpoints = <<RPDO_VREQ, RPDO_IREQ>>,
                                          !.resumed = @ \/ wire.dropped,
                                          !.status = BattStatusU8(counter),
                                          !.nth = IF @ = "none" THEN "first" ELSE "later"]
  /\ counter' = (counter + 1) % COUNTER_MODULUS
  /\ r_pc' = "sleep"
  /\ UNCHANGED <<scfg, bus, hb_task, stop_ev, s_pc, running, nmt_started, c_pc, t_pc>>
  /\ UNCHANGED notStop

\* a handler that lets the error end the thread
RpdoAfterCanErrorEndsThread == "exited"

\* lines 249-251: `except can.CanError: pass`, on to lines 253-255
RpdoAfterCanError == "sleep"

\* lines 196-253 with bus.send raising can.CanError (a transmit error, or
\* the bus already shut down), swallowed at lines 249-251
RpdoSendFails ==
  /\ r_pc = "send"
  /\ wire' = [NotTransmitted EXCEPT !.dropped = TRUE]
  /\ counter' = (counter + 1) % COUNTER_MODULUS
  /\ r_pc' = RpdoAfterCanError
  /\ UNCHANGED <<scfg, bus, hb_task, stop_ev, s_pc, running, nmt_started, c_pc, t_pc>>
  /\ UNCHANGED notStop

\* lines 254-255: sleep until the next period
RpdoSleep ==
  /\ r_pc = "sleep"
  /\ r_pc' = "check"
  /\ UNCHANGED <<scfg, bus, hb_task, stop_ev, s_pc, counter, running, nmt_started, c_pc, t_pc, wire>>
  /\ UNCHANGED notStop

\* --- the send_periodic heartbeat task (both programs) ---
HbSend ==
  /\ hb_task \in {"running", "leaked_running", "leaked_stopped"} /\ bus = "open"
  /\ wire' = Transmitted("heartbeat")
  /\ UNCHANGED <<scfg, bus, hb_task, stop_ev, s_pc, r_pc, counter, running, nmt_started, c_pc, t_pc>>
  /\ UNCHANGED notStop

\* --- ChargerController, called from its owner's thread ---
\* Thread.start(): run() begins
CtlStartThread ==
  /\ scfg.prog = "controller" /\ c_pc = "ready" /\ t_pc = "new"
  /\ t_pc' = "check"
  /\ UNCHANGED <<scfg, bus, hb_task, stop_ev, s_pc, r_pc, counter, running, nmt_started, c_pc, wire>>
  /\ UNCHANGED notStop

\* line 91: self.hb_task = self.bus.send_periodic(msg, period).  A task
\* that self.hb_task held and that was not stopped goes on sending, and
\* nothing holds it any more.
HbTaskStarted(h) ==
  IF h \in {"unset", "stopped"} THEN "running" ELSE "leaked_running"

\* line 95: self.hb_task.stop(), for a task that exists
HbTaskStopped(h) ==
  CASE h = "running" -> "stopped"
    [] h = "leaked_running" -> "leaked_stopped"
    [] OTHER -> h

\* start_heartbeat, lines 79-92, called by the thread that owns the
\* controller, for the first time or again
CtlStartHeartbeat ==
  /\ scfg.prog = "controller" /\ c_pc = "ready"
  /\ hb_task' = HbTaskStarted(hb_task)
  /\ UNCHANGED <<scfg, bus, stop_ev, s_pc, r_pc, counter, running, nmt_started, c_pc, t_pc, wire>>
  /\ UNCHANGED notStop

\* stop_heartbeat, lines 94-96, called by the thread that owns the
\* controller: the task held is stopped and the controller goes on.  Before
\* any start_heartbeat self.hb_task does not exist: AttributeError to the
\* caller, nothing changed.
CtlOwnerStopHeartbeat ==
  /\ scfg.prog = "controller" /\ c_pc = "ready"
  /\ hb_task' = HbTaskStopped(hb_task)
  /\ UNCHANGED <<scfg, bus, stop_ev, s_pc, r_pc, counter, running, nmt_started, c_pc, t_pc, wire>>
  /\ UNCHANGED notStop

\* nmt_start_charger(), lines 126-129, called by the thread that owns the
\* controller: the NMT Start frame [0x01, CHARGER_NODE_ID] goes out, or
\* bus.send raises can.CanError to the caller
CtlNmtStart ==
  /\ scfg.prog = "controller" /\ c_pc = "ready"
  /\ \E sent \in BOOLEAN :
       wire' = IF sent /\ bus = "open"
               THEN [Transmitted("nmt") EXCEPT !.nmt = TRUE]
               ELSE NotTransmitted
  /\ UNCHANGED <<scfg, bus, hb_task, stop_ev, s_pc, r_pc, counter, running, nmt_started, c_pc, t_pc>>
  /\ UNCHANGED notStop

\* stop(), line 196: self._running.clear()
CtlStopClear ==
  /\ scfg.prog = "controller" /\ c_pc = "ready"
  /\ running' = FALSE
  /\ c_pc' = "stop_cond"
  /\ UNCHANGED <<scfg, bus, hb_task, stop_ev, s_pc, r_pc, counter, nmt_started, t_pc, wire>>
  /\ UNCHANGED notStop

\* stop(), lines 197-201: with read_only the block is skipped; otherwise
\* self.nmt_started is read (AttributeError while it was never assigned) and,
\* when true, self.send_battery_status is looked up, a method the class does
\* not define (AttributeError, which `except can.CanError` does not catch)
CtlStopZero ==
  /\ scfg.prog = "controller" /\ c_pc = "stop_cond"
  /\ c_pc' = IF scfg.read_only THEN "stop_hb" ELSE "raised"
  /\ UNCHANGED <<scfg, bus, hb_task, stop_ev, s_pc, r_pc, counter, running, nmt_started, t_pc, wire>>
  /\ UNCHANGED notStop

\* stop(), line 202: stop_heartbeat(); self.hb_task exists only after
\* start_heartbeat
CtlStopHeartbeat ==
  /\ scfg.prog = "controller" /\ c_pc = "stop_hb"
  /\ IF hb_task = "unset"
     THEN c_pc' = "raised" /\ UNCHANGED hb_task
     ELSE c_pc' = "stop_shutdown" /\ hb_task' = HbTaskStopped(hb_task)
  /\ UNCHANGED <<scfg, bus, stop_ev, s_pc, r_pc, counter, running, nmt_started, t_pc, wire>>
  /\ UNCHANGED notStop

\* stop(), line 203: bus.shutdown(), then stop() returns
CtlStopShutdown ==
  /\ scfg.prog = "controller" /\ c_pc = "stop_shutdown"
  /\ bus' = BusShutdown
  /\ c_pc' = "returned"
  /\ UNCHANGED <<scfg, hb_task, stop_ev, s_pc, r_pc, counter, running, nmt_started, t_pc, wire>>
  /\ UNCHANGED notStop

\* --- ChargerController.run(), lines 134-160 ---
\* line 138: while self._running.is_set()
CtlRunCheck ==
  /\ t_pc = "check"
  /\ t_pc' = IF running THEN "periodic" ELSE "exited"
  /\ UNCHANGED <<scfg, bus, hb_task, stop_ev, s_pc, r_pc, counter, running, nmt_started, c_pc, wire>>
  /\ UNCHANGED notStop

\* a sender that copies volts and amps without taking self._lock
SenderHoldsNoLock == FALSE

\* lines 144-146: run() is inside `with self._lock`, between its read of
\* self.volts and its read of self.amps
SenderHoldsLock == t_pc = "copying"

\* lines 139-145: the periodic block.  `not self.read_only and
\* self.nmt_started and (...)`: read_only short-circuits; otherwise
\* nmt_started is read (AttributeError while unset, ending the thread) and,
\* once the interval has elapsed, self._lock is taken (update() holds it only
\* within one step of its own) and self.volts is read at line 145.
CtlRunPeriodic ==
  /\ t_pc = "periodic"
  /\ \E elapsed \in BOOLEAN :
       IF scfg.read_only
       THEN t_pc' = "recv" /\ UNCHANGED snap
       ELSE IF nmt_started = "unset"
       THEN t_pc' = "crashed" /\ UNCHANGED snap
       ELSE IF elapsed
       THEN /\ snap' = [snap EXCEPT !.taken = FALSE, !.volts = setp.volts,
                                    !.vby = setp.vby, !.vat = setp.n]
            /\ t_pc' = "copying"
       ELSE t_pc' = "recv" /\ UNCHANGED snap
  /\ UNCHANGED <<scfg, bus, hb_task, stop_ev, s_pc, r_pc, counter, running, nmt_started, c_pc, wire>>
  /\ UNCHANGED <<hb, setp>>
  /\ UNCHANGED notStopCtl

\* lines 146-147: self.amps is read, the lock is released and
\* self.send_heartbeat is looked up, a method the class does not define:
\* AttributeError, which `except can.CanError` does not catch, ends the
\* thread before anything is sent
CtlRunCopyAmps ==
  /\ t_pc = "copying"
  /\ snap' = [snap EXCEPT !.taken = TRUE, !.amps = setp.amps,
                          !.aby = setp.aby, !.aat = setp.n]
  /\ t_pc' = "crashed"
  /\ UNCHANGED <<scfg, bus, hb_task, stop_ev, s_pc, r_pc, counter, running, nmt_started, c_pc, wire>>
  /\ UNCHANGED <<hb, setp>>
  /\ UNCHANGED notStopCtl

HeartbeatTexts == {"none", "Pre-operational", "Operational", "Stopped", "undecodable"}

\* lines 164-166: the decoded heartbeat is recorded in current_state under
\* self._state_lock, after the one recorded before it; a frame that was not
\* received or does not decode records nothing.  No path of
\* process_received_message puts an NMT Start on the bus: line 173 is
\* reached only with nmt_started assigned and false, and the only assignment
\* is the True of line 176 (and send_nmt_start is not a method of the class).
Handled(m) ==
  IF m \in {"none", "undecodable"} THEN hb
  ELSE [hb EXCEPT !.prev = hb.last, !.last = m, !.sent = FALSE]

\* lines 155-166: nothing received (back to line 138), or a frame whose
\* decoded "Heartbeat" signal is as given: process_received_message records
\* it and releases self._state_lock; a frame that does not decode is caught
\* at line 179, and a state other than "Pre-operational" and "Operational"
\* falls through lines 171-177 without touching anything shared.  On a bus
\* already shut down recv raises instead: a can.CanError is caught at line
\* 159, anything else ends the thread.
CtlRunRecv ==
  /\ t_pc = "recv"
  /\ IF bus = "closed"
     THEN t_pc' \in {"check", "crashed"} /\ UNCHANGED hb
     ELSE \E m \in HeartbeatTexts :
            IF m \in {"Pre-operational", "Operational"}
            THEN hb' = [Handled(m) EXCEPT !.cur = m] /\ t_pc' = "handle"
            ELSE hb' = Handled(m) /\ t_pc' = "check"
  /\ UNCHANGED <<scfg, bus, hb_task, stop_ev, s_pc, r_pc, counter, running, nmt_started, c_pc, wire>>
  /\ UNCHANGED <<setp, snap>>
  /\ UNCHANGED notStopCtl

\* lines 169-177, run() handling the heartbeat it has recorded:
\* "Pre-operational" reads self.nmt_started (AttributeError while it is
\* unset, which `except (KeyError, ValueError)` does not catch: run() ends);
\* "Operational" assigns it.  The owner's own process_received_message may
\* have run since line 166.
CtlRunHandle ==
  /\ t_pc = "handle"
  /\ IF hb.cur = "Pre-operational" /\ nmt_started = "unset"
     THEN /\ t_pc' = "crashed"
          /\ hb' = [hb EXCEPT !.fatal = TRUE, !.cur = "none"]
          /\ UNCHANGED nmt_started
     ELSE /\ t_pc' = "check"
          /\ nmt_started' = IF hb.cur = "Operational" THEN "true" ELSE nmt_started
          /\ hb' = [hb EXCEPT !.cur = "none"]
  /\ UNCHANGED <<scfg, bus, hb_task, stop_ev, s_pc, r_pc, counter, running, c_pc, wire>>
  /\ UNCHANGED <<setp, snap>>
  /\ UNCHANGED notStopCtl

\* process_received_message(msg), lines 162-166, called by the thread that
\* owns the controller with a frame whose decoded "Heartbeat" signal is as
\* given: the heartbeat is recorded and self._state_lock released.  A frame
\* that does not decode, or a state other than "Pre-operational" and
\* "Operational", ends the call there.
CtlOwnerProcess ==
  /\ scfg.prog = "controller" /\ c_pc = "ready"
  /\ \E m \in HeartbeatTexts :
       /\ hb' = Handled(m)
       /\ c_pc' = CASE m = "Pre-operational" -> "handle_preop"
                    [] m = "Operational" -> "handle_op"
                    [] OTHER -> "ready"
  /\ UNCHANGED <<scfg, bus, hb_task, stop_ev, s_pc, r_pc, counter, running, nmt_started, t_pc, wire>>
  /\ UNCHANGED <<setp, snap>>
  /\ UNCHANGED notStopCtl

\* lines 169-177 of the owner's call: "Operational" assigns nmt_started
\* (line 176); "Pre-operational" reads it (line 171): the AttributeError
\* while it is unset goes to the caller, and once it is True nothing is
\* sent.  run() may have recorded and handled frames since line 166.
CtlOwnerHandle ==
  /\ scfg.prog = "controller" /\ c_pc \in {"handle_preop", "handle_op"}
  /\ nmt_started' = IF c_pc = "handle_op" THEN "true" ELSE nmt_started
  /\ c_pc' = "ready"
  /\ UNCHANGED <<scfg, bus, hb_task, stop_ev, s_pc, r_pc, counter, running, t_pc, wire>>
  /\ UNCHANGED <<hb, setp, snap>>
  /\ UNCHANGED notStopCtl

\* update(), lines 186-193, called by the thread that owns the controller:
\* it waits for self._lock (line 187) while run() holds it; each of volts
\* and amps is written only when given (soc, which run() never reads, is
\* left out)
CtlUpdate ==
  /\ scfg.prog = "controller" /\ c_pc = "ready"
  /\ ~SenderHoldsLock
  /\ setp.n < MaxUpdates
  /\ \E volts \in {820, 842}, amps \in {50, 100}, hasVolts, hasAmps \in BOOLEAN :
       setp' = [n     |-> setp.n + 1,
                volts |-> IF hasVolts THEN volts ELSE setp.volts,
                vby   |-> IF hasVolts THEN setp.n + 1 ELSE setp.vby,
                amps  |-> IF hasAmps THEN amps ELSE setp.amps,
                aby   |-> IF hasAmps THEN setp.n + 1 ELSE setp.aby]
  /\ UNCHANGED stopVars
  /\ UNCHANGED <<hb, snap>>
  /\ UNCHANGED notStopCtl

\* ChargerController.__init__, lines 56-57, with the defaults volts=0.0,
\* amps=0.0; run() has handled no heartbeat and holds no snapshot
InitCtl ==
  /\ hb = [prev |-> "none", last |-> "none", sent |-> FALSE, fatal |-> FALSE,
           cur |-> "none"]
  /\ setp = [n |-> 0, volts |-> 0, vby |-> 0, amps |-> 0, aby |-> 0]
  /\ snap = [taken |-> FALSE, volts |-> 0, amps |-> 0, vby |-> 0, aby |-> 0,
             vat |-> 0, aat |-> 0]

\* --- monitor_charger_state, lines 99-119 ---
\* last_state = None
NONE == -1

\* the table of line 117, with its default
MonStateText(state) ==
  CASE state = 0 -> "Bootup"
    [] state = 4 -> "Stopped"
    [] state = 5 -> "Operational"
    [] state = 127 -> "Pre-op"
    [] OTHER -> "Unknown"

\* line 103: while not stop_ev.is_set()
MonCheck ==
  /\ mon.pc = "check"
  /\ mon' = [mon EXCEPT !.pc = IF stop_ev THEN "exited" ELSE "recv"]
  /\ UNCHANGED stopVars
  /\ UNCHANGED notStopMon

\* COB-ID base of heartbeats, line 34
HEARTBEAT_BASE == 1792

\* a test that takes the first byte of any frame with data
MonAcceptsAnyId(id, data) == Len(data) >= 1

\* line 114: the frame is the charger's heartbeat and has a first byte
MonAccepts(id, data) == id = HEARTBEAT_BASE + CHARGER_NODE_ID /\ Len(data) >= 1

\* lines 104-119: bus.recv timed out (no frame), or returned a frame: the
\* charger's heartbeat id 0x70A, the simulator's own 0x701 or the TPDO id
\* 0x18A, with no data, one byte or two.  Whether the frame decodes (lines
\* 108-112) changes nothing.  recv on a bus already shut down raises, and
\* nothing in the thread catches it.
MonRecv ==
  /\ mon.pc = "recv"
  /\ IF bus = "closed"
     THEN mon' = [mon EXCEPT !.pc = "crashed"]
     ELSE \/ mon' = [mon EXCEPT !.pc = "check", !.rx = [id |-> NONE, data |-> <<>>],
                                !.rxBefore = mon.last_state]
          \/ \E id \in {1802, 1793, 394},
                data \in {<<>>, <<0>>, <<4>>, <<5>>, <<127>>, <<1>>, <<5, 0>>} :
               IF MonAccepts(id, data)
               THEN mon' = [pc |-> "check",
                            last_state |-> IF data[1] # mon.last_state
                                           THEN data[1] ELSE mon.last_state,
                            byte |-> data[1],
                            before |-> mon.last_state,
                            rx |-> [id |-> id, data |-> data],
                            rxBefore |-> mon.last_state]
               ELSE mon' = [mon EXCEPT !.pc = "check", !.rx = [id |-> id, data |-> data],
                                       !.rxBefore = mon.last_state]
  /\ UNCHANGED stopVars
  /\ UNCHANGED notStopMon

\* monitor_thr created, not started
InitMon ==
  mon = [pc |-> "new", last_state |-> NONE, byte |-> NONE, before |-> NONE,
         rx |-> [id |-> NONE, data |-> <<>>], rxBefore |-> NONE]

InitStopWith(c) ==
  /\ scfg = c
  /\ bus = "open"
  /\ hb_task = "unset"
  /\ stop_ev = FALSE
  /\ s_pc = "init"
  /\ r_pc = "new"
  /\ counter = 0
  /\ running = TRUE
  /\ nmt_started = "unset"
  /\ c_pc = "ready"
  /\ t_pc = "new"
  /\ wire = [last |-> "none", late |-> FALSE, lateTry |-> FALSE, zero |-> FALSE,
             setpoints |-> <<>>, dropped |-> FALSE, resumed |-> FALSE,
             status |-> -1, nth |-> "none", nmt |-> FALSE]

InitStop ==
  \E p \in {"simulator", "controller"}, ro \in BOOLEAN :
    InitStopWith([prog |-> p, read_only |-> ro])

StopParked == InitStopWith([prog |-> "simulator", read_only |-> FALSE])

NextStop ==
  \/ SimStartHeartbeat \/ SimNmtStart \/ SimNmtStartFails \/ SimInterruptEarly
  \/ SimStartRpdo \/ SimInterrupt
  \/ SimSetStop \/ SimHbStop \/ SimJoinRpdo \/ SimShutdown \/ SimInterruptFinally
  \/ RpdoCheck \/ RpdoSend \/ RpdoSendFails \/ RpdoSleep
  \/ HbSend
  \/ CtlStartThread \/ CtlStartHeartbeat \/ CtlOwnerStopHeartbeat \/ CtlNmtStart
  \/ CtlStopClear \/ CtlStopZero \/ CtlStopHeartbeat \/ CtlStopShutdown
  \/ CtlRunCheck \/ CtlRunPeriodic \/ CtlRunCopyAmps \/ CtlRunRecv \/ CtlRunHandle
  \/ CtlOwnerProcess \/ CtlOwnerHandle

\* A ChargerController whose owner publishes setpoints with update() while
\* run() copies them: the controller's methods that touch the setpoints, the
\* sender thread, nmt_started or the bus (the heartbeat task's own sends are
\* under SpecStop).
NextSetpoints ==
  \/ CtlStartThread \/ CtlStartHeartbeat \/ CtlNmtStart
  \/ CtlStopClear \/ CtlStopZero \/ CtlStopHeartbeat \/ CtlStopShutdown
  \/ CtlRunCheck \/ CtlRunPeriodic \/ CtlRunCopyAmps \/ CtlRunRecv \/ CtlRunHandle
  \/ CtlUpdate \/ CtlOwnerProcess \/ CtlOwnerHandle

\* lines 104-119 on a bus that carries the charger's Operational heartbeat
\* and nothing else: recv times out after 0.2 s or returns 0x70A [05]
MonRecvHeartbeat ==
  /\ MonRecv
  /\ mon'.rx \in {[id |-> NONE, data |-> <<>>], [id |-> 1802, data |-> <<5>>]}

\* main() with both of its threads
NextThreads ==
  \/ SimStartHeartbeat \/ SimNmtStart \/ SimNmtStartFails \/ SimInterruptEarly
  \/ SimStartRpdo \/ SimInterrupt
  \/ SimSetStop \/ SimHbStop \/ SimJoinRpdo \/ SimShutdown \/ SimInterruptFinally
  \/ RpdoCheck \/ RpdoSend \/ RpdoSendFails \/ RpdoSleep
  \/ MonCheck \/ MonRecvHeartbeat

\* main() with its monitor thread
NextMonitor ==
  \/ SimStartHeartbeat \/ SimNmtStart \/ SimNmtStartFails \/ SimInterruptEarly
  \/ SimStartRpdo \/ SimInterrupt
  \/ SimSetStop \/ SimHbStop \/ SimJoinRpdo \/ SimShutdown \/ SimInterruptFinally
  \/ MonCheck \/ MonRecv

(***************************************************************************)
(* deltaq_canopen.py: sdo_download and bringup_sequence, with the charger's *)
(* SDO server as the environment.                                          *)
(***************************************************************************)
\* the bytes of the value with the most significant first
LEBytesMostSignificantFirst(value, size) ==
  [k \in 1..size |-> (value \div (256 ^ (size - k))) % 256]

\* value.to_bytes(size, byteorder="little")
LEBytes(value, size) == [k \in 1..size |-> (value \div (256 ^ (k - 1))) % 256]

\* sdo_download, lines 122-135: the data of the frame it sends, or the
\* exception it raises before sending: the dict lookup of line 126, bytes()
\* of line 129, to_bytes of line 130, in that order.  The value is the int
\* value.hi * 2^16 + value.lo with lo in 0..65535 (hi < 0 for a negative
\* int), so that values up to 2^32 - 1 stay exact.
sdo_download(index, subindex, value, size) ==
  IF size \notin {1, 2, 4}
  THEN [exc |-> "KeyError", data |-> <<>>]
  ELSE IF subindex \notin 0..255
  THEN [exc |-> "ValueError", data |-> <<>>]
  ELSE IF \/ value.hi < 0
          \/ (size = 1 /\ (value.hi > 0 \/ value.lo >= 256))
          \/ (size = 2 /\ value.hi > 0)
          \/ (size = 4 /\ value.hi >= 65536)
  THEN [exc |-> "OverflowError", data |-> <<>>]
  ELSE [exc  |-> "none",
        data |-> << (CASE size = 1 -> 47 [] size = 2 -> 43 [] size = 4 -> 35),
                    index % 256, (index \div 256) % 256, subindex >>
                 \o (IF size = 4 THEN LEBytes(value.lo, 2) \o LEBytes(value.hi, 2)
                     ELSE LEBytes(value.lo, size))
                 \o [k \in 1..(4 - size) |-> 0]]

\* int(num / den) for den > 0: Python's int() truncates toward zero
IntTrunc(num, den) == IF num >= 0 THEN num \div den ELSE -((-num) \div den)

\* n & 0xFFFFFFFF of a Python int, as two 16-bit halves
Mask32(n) == W((n \div 65536) % 65536, n % 65536)

\* bringup_sequence, lines 145-152: the arguments of its three sdo_download
\* calls, the value as two 16-bit halves.  vreq / ireq are in tenths:
\* int(vreq / 0.00390625) & 0xFFFFFFFF is vreq * 256 truncated toward zero,
\* modulo 2^32; int(ireq / 0.0625) & 0xFFFF is ireq * 16 truncated toward
\* zero, modulo 2^16.
BringupRequest(b) ==
  CASE b.step = 1 -> <<24576, 0, W(0, 1), 1>>
    [] b.step = 2 -> <<8817, 0, Mask32(IntTrunc(b.vreq * 256, 10)), 4>>
    [] b.step = 3 -> <<24688, 0, W(0, IntTrunc(b.ireq * 16, 10) % 65536), 2>>

\* bringup_sequence(bus, vreq, ireq) is called
BringupCall ==
  /\ bup.pc = "idle"
  /\ \E vreq \in {840, 823, -10}, ireq \in {50, 50000, -1} :
       bup' = [pc |-> "download", step |-> 1, vreq |-> vreq, ireq |-> ireq]
  /\ UNCHANGED <<pending, answers, sdo_call>>
  /\ UNCHANGED notSdo

\* one sdo_download call, lines 122-137: it builds the frame, sends it and
\* returns None; it reads nothing from the bus.  bus.send may raise
\* can.CanError, which nothing in sdo_download or bringup_sequence catches.
BringupDownload ==
  /\ bup.pc = "download"
  /\ LET a == BringupRequest(bup)
         f == sdo_download(a[1], a[2], a[3], a[4])
     IN \E sent \in BOOLEAN :
          LET ret == IF f.exc # "none" THEN f.exc
                     ELSE IF sent THEN "None" ELSE "CanError"
          IN /\ sdo_call' = [made |-> TRUE, index |-> a[1], subindex |-> a[2],
                             value |-> a[3], size |-> a[4], data |-> f.data,
                             cobid |-> SDO_CLIENT_TO_SERVER + CHARGER_NODE_ID,
                             sent |-> IF ret = "None" THEN 1 ELSE 0,
                             ret |-> ret, pendingBefore |-> pending]
             /\ pending' = IF ret = "None" THEN pending \cup {<<a[1], a[2]>>} ELSE pending
             /\ bup' = [bup EXCEPT !.pc = IF ret = "None" THEN "sleep" ELSE "raised"]
  /\ UNCHANGED answers
  /\ UNCHANGED notSdo

\* time.sleep(1.0) of lines 146, 151, 153, then the next call or the return
BringupSleep ==
  /\ bup.pc = "sleep"
  /\ bup' = IF bup.step = 3 THEN [bup EXCEPT !.pc = "returned"]
            ELSE [bup EXCEPT !.pc = "download", !.step = @ + 1]
  /\ UNCHANGED <<pending, answers, sdo_call>>
  /\ UNCHANGED notSdo

\* The charger answers a request it has received, in its own time, with a
\* download response (abort 0) or an abort code such as 0x06040041.
ChargerSdoAnswer ==
  /\ \E r \in pending, abort \in {0, 100925505} :
       /\ pending' = pending \ {r}
       /\ answers' = answers \cup {[index |-> r[1], subindex |-> r[2], abort |-> abort]}
  /\ UNCHANGED <<bup, sdo_call>>
  /\ UNCHANGED notSdo

InitSdo ==
  /\ bup = [pc |-> "idle", step |-> 0, vreq |-> 0, ireq |-> 0]
  /\ pending = {}
  /\ answers = {}
  /\ sdo_call = [made |-> FALSE, index |-> 0, subindex |-> 0, value |-> W(0, 0), size |-> 0,
                 data |-> <<>>, cobid |-> 0, sent |-> 0, ret |-> "none",
                 pendingBefore |-> {}]

NextSdo == BringupCall \/ BringupDownload \/ BringupSleep \/ ChargerSdoAnswer

(***************************************************************************)
(* helper/decode_ttl.py: the decoders of the BMS frame.  A frame is the    *)
(* list of its bytes; Python's index i is position i + 1 of the sequence.  *)
(* Voltages and currents stay in the frame's raw units (tenths of a volt   *)
(* or ampere, millivolts for cells, micro-ampere-hours for capacities).    *)
(***************************************************************************)
\* hex_array[i]
At(hex_array, i) == hex_array[i + 1]

\* (high_byte << 8) | low_byte of the bytes at i and i + 1
U16(hex_array, i) == At(hex_array, i) * 256 + At(hex_array, i + 1)

\* the two bytes read low byte first
decode_pack_voltage_low_first(hex_array) == At(hex_array, 5) * 256 + At(hex_array, 4)

\* lines 4-11
decode_pack_voltage(hex_array) == U16(hex_array, 4)

\* lines 26-32
decode_pack_current(hex_array) == U16(hex_array, 72)

\* lines 34-37
decode_soc(hex_array) == At(hex_array, 74)

\* lines 13-24
decode_individual_cells(hex_array) == [i \in 1..NUM_CELLS |-> U16(hex_array, (i - 1) * 2 + 6)]

\* lines 68-102: the four bytes from `first` on, reversed and then summed
\* with the last of the reversed list weighted 256^3, as two 16-bit halves
decode_capacity(hex_array, first) == W(U16(hex_array, first), U16(hex_array, first + 2))

\* lines 106-130
charging_mos_status ==
  [c \in 0..22 |->
     <<"Close", "Open", "Overvoltage of the single cell", "Over current",
       "Secondary overcurrent", "The total voltage is overvoltage",
       "Battery over-temperature", "Power over-temperature", "Current anomaly",
       "Balance line Disconnect", "mainboard over-temperature", "",
       "Failed to open", "Charging MOS Error", "waiting", "Manual close",
       "Secondary overvoltage", "Low-temperature protection",
       "Differential voltage protection", "", "", "",
       "Total voltage single cell abnormality">>[c + 1]]

\* lines 136-160
discharge_mos_state ==
  [c \in 0..22 |->
     <<"Close", "Open", "Under-voltage of the single cell", "Over current",
       "Secondary overcurrent", "The total voltage is under-voltage",
       "Battery over-temperature", "Power over-temperature", "Current anomaly",
       "Balance line Disconnect", "mainboard over-temperature", "",
       "Short circuit protection", "Discharge MOS Error", "Failed to open",
       "Manual close", "Under-voltage at level 2", "Low-temperature protection",
       "Differential voltage protection", "", "", "",
       "Total voltage single cell abnormality">>[c + 1]]

\* a table that answers every byte, with "Unknown" for the codes it lacks
balance_state_with_default ==
  [c \in 0..255 |->
     CASE c = 0 -> "Close"
       [] c = 1 -> "Balance limit"
       [] c = 2 -> "Differential voltage Balance"
       [] c = 3 -> "Balance over-temperature"
       [] c = 4 -> "Auto Balance"
       [] c = 10 -> "mainboard over-temperature"
       [] OTHER -> "Unknown"]

\* lines 166-173
balance_state ==
  [c \in {0, 1, 2, 3, 4, 10} |->
     CASE c = 0 -> "Close"
       [] c = 1 -> "Balance limit"
       [] c = 2 -> "Differential voltage Balance"
       [] c = 3 -> "Balance over-temperature"
       [] c = 4 -> "Auto Balance"
       [] c = 10 -> "mainboard over-temperature"]

\* convert_full_msg, lines 197-251: the decoders run in the order of the
\* source and the first exception ends the call: IndexError from an index
\* past the end of the list, KeyError from a status byte its table lacks.
\* Nothing looks at the length of the list.
convert_full_msg(byte_list) ==
  LET hex_array == byte_list
      n == Len(hex_array)
      status(table, i) == [codes |-> At(hex_array, i), descriptions |-> table[At(hex_array, i)]]
  IN IF n <= 5 THEN [kind |-> "IndexError"]          \* decode_pack_voltage
     ELSE IF n <= 73 THEN [kind |-> "IndexError"]    \* decode_pack_current
     ELSE IF n <= 74 THEN [kind |-> "IndexError"]    \* decode_soc
     ELSE IF n <= 92 THEN [kind |-> "IndexError"]    \* decode_MOS_temp
     ELSE IF n <= 94 THEN [kind |-> "IndexError"]    \* decode_balance_temp
     ELSE IF n <= 102 THEN [kind |-> "IndexError"]   \* decode_external_temps
     ELSE IF n <= 104 THEN [kind |-> "IndexError"]   \* decode_discharge_mos_status
     ELSE IF At(hex_array, 104) \notin DOMAIN discharge_mos_state THEN [kind |-> "KeyError"]
     ELSE IF At(hex_array, 103) \notin DOMAIN charging_mos_status THEN [kind |-> "KeyError"]
     ELSE IF n <= 105 THEN [kind |-> "IndexError"]   \* decode_balance_status
     ELSE IF At(hex_array, 105) \notin DOMAIN balance_state THEN [kind |-> "KeyError"]
     ELSE IF n <= 117 THEN [kind |-> "IndexError"]   \* decode_high_cell_voltage
     ELSE IF n <= 120 THEN [kind |-> "IndexError"]   \* decode_low_cell_voltage
     ELSE [kind |-> "return",
           pack_voltage |-> decode_pack_voltage(hex_array),
           pack_current |-> decode_pack_current(hex_array),
           soc |-> decode_soc(hex_array),
           individual_cells |-> decode_individual_cells(hex_array),
           mos_temperature |-> U16(hex_array, 91),
           balance_temperature |-> U16(hex_array, 93),
           external_temperatures |-> [i \in 1..4 |-> U16(hex_array, (i - 1) * 2 + 95)],
           physical_capacity_ah |-> decode_capacity(hex_array, 75),
           remaining_capacity_ah |-> decode_capacity(hex_array, 79),
           cyclic_capacity_ah |-> decode_capacity(hex_array, 83),
           discharge_mos_status |-> status(discharge_mos_state, 104),
           charge_mos_status |-> status(charging_mos_status, 103),
           balance_status |-> status(balance_state, 105),
           high_cell |-> [cell_number |-> At(hex_array, 115), voltage |-> U16(hex_array, 116)],
           low_cell |-> [cell_number |-> At(hex_array, 118), voltage |-> U16(hex_array, 119)]]

\* A list of `len` bytes as list(ser.read(...)) gives it: the pack voltage at
\* bytes 4-5, the pack current at 72-73, the state of charge at 74 and one
\* status code at 103-105, zero elsewhere.
TestFrame(len, voltage, current, soc, status) ==
  [k \in 1..len |->
     CASE k - 1 = 4 -> voltage \div 256
       [] k - 1 = 5 -> voltage % 256
       [] k - 1 = 72 -> current \div 256
       [] k - 1 = 73 -> current % 256
       [] k - 1 = 74 -> soc
       [] k - 1 \in {103, 104, 105} -> status
       [] OTHER -> 0]

\* convert_full_msg is called on a list of any length.  Its content is a
\* frame of 80.0 V, 50 % and zero status bytes with one field changed at a
\* time, or all of them: <<voltage, soc, charge-MOS byte, discharge-MOS
\* byte, balance byte, cap>>; with cap = 1 the twelve capacity bytes 75..86
\* are 1, 2, ..., 12, so that each byte of each capacity has its own value.
Decode ==
  /\ \E len \in {0, 5, 6, 74, 75, 93, 103, 105, 106, 118, 120, 121, 139, 140, 141},
        v \in {<<800, 50, 0, 0, 0, 0>>, <<841, 50, 0, 0, 0, 0>>, <<1000, 50, 0, 0, 0, 0>>,
               <<800, 96, 0, 0, 0, 0>>, <<800, 50, 23, 0, 0, 0>>, <<800, 50, 0, 23, 0, 0>>,
               <<800, 50, 0, 0, 5, 0>>, <<800, 50, 0, 0, 9, 0>>, <<800, 50, 0, 0, 10, 0>>,
               <<800, 50, 0, 0, 0, 1>>, <<1000, 96, 22, 22, 4, 1>>,
               <<1000, 96, 23, 23, 5, 1>>} :
       LET t == TestFrame(len, v[1], 20, v[2], 0)
           f == [k \in 1..len |->
                   CASE k - 1 = 103 -> v[3]
                     [] k - 1 = 104 -> v[4]
                     [] k - 1 = 105 -> v[5]
                     [] k - 1 \in 75..86 -> v[6] * (k - 75)
                     [] OTHER -> t[k]]
       IN dec' = [frame |-> f, out |-> convert_full_msg(f)]
  /\ UNCHANGED notDec

InitDec ==
  dec = [frame |-> <<>>, out |-> [kind |-> "none"]]

(***************************************************************************)
(* main_charging.py: the BMS query / decode / tick loop of main().         *)
(***************************************************************************)
\* the length main() asks of ser.read and requires of the response
FRAME_LEN == 140
\* line 51: the state of charge above which main() stops and exits
SOC_STOP == 95

\* a check that pads a short response instead of refusing it
CheckLengthPads(response) ==
  [pc |-> "decode",
   response |-> [k \in 1..FRAME_LEN |-> IF k <= Len(response) THEN response[k] ELSE 0]]

\* lines 36-40: a response of another length is reported and the loop
\* continues; one of 140 bytes becomes the list of its bytes
CheckLength(response) ==
  IF Len(response) # FRAME_LEN
  THEN [pc |-> "query", response |-> response]
  ELSE [pc |-> "decode", response |-> response]

\* lines 30-34: the query is written and, 0.3 s later, ser.read(140)
\* returns what has arrived within the 1 s timeout: 140 bytes at most
LoopQuery ==
  /\ lp.pc = "query"
  /\ \E len \in {0, 139, FRAME_LEN}, voltage \in {800, 841}, current \in {5, 20},
        soc \in {50, 96}, status \in {0, 23} :
       LET r == TestFrame(len, voltage, current, soc, status)
       IN lp' = [lp EXCEPT !.pc = "check", !.response = r, !.raw = r,
                           !.decoded = FALSE, !.ticked = FALSE,
                           !.steps = <<"acquire">>]
  /\ UNCHANGED notLoop

\* lines 36-40
LoopCheck ==
  /\ lp.pc = "check"
  /\ LET c == CheckLength(lp.response)
     IN lp' = [lp EXCEPT !.pc = c.pc, !.response = c.response]
  /\ UNCHANGED notLoop

\* a body that goes from the decoded values straight to run_update
LoopDecodeWithoutStopCheck ==
  /\ lp.pc = "decode"
  /\ LET d == convert_full_msg(lp.response)
     IN lp' = IF d.kind # "return"
              THEN [lp EXCEPT !.pc = "query", !.decoded = TRUE,
                              !.steps = Append(@, "decode")]
              ELSE [lp EXCEPT !.pc = "tick",
                              !.decoded = TRUE,
                              !.steps = Append(@, "decode"),
                              !.pack_soc = d.soc,
                              !.pack_voltage = d.pack_voltage,
                              !.pack_current = d.pack_current]
  /\ UNCHANGED notLoop

\* lines 42-60: convert_full_msg; an exception is caught at line 77 and the
\* loop continues.  Above 95 % the controller is stopped and sys.exit()
\* raises SystemExit, which `except Exception` lets through; otherwise
\* nothing is started (lines 58-59 are comments).  The stop of the charger
\* (line 53) is a comment too: nothing goes out on a CAN bus.
LoopDecode ==
  /\ lp.pc = "decode"
  /\ LET d == convert_full_msg(lp.response)
     IN lp' = IF d.kind # "return"
              THEN [lp EXCEPT !.pc = "query", !.decoded = TRUE,
                              !.steps = Append(@, "decode")]
              ELSE [lp EXCEPT !.pc = IF d.soc > SOC_STOP THEN "exit" ELSE "tick",
                              !.decoded = TRUE,
                              !.steps = @ \o <<"decode", "stop_check">>,
                              !.pack_soc = d.soc,
                              !.pack_voltage = d.pack_voltage,
                              !.pack_current = d.pack_current,
                              !.stop_called = d.soc > SOC_STOP,
                              !.charging_control =
                                 IF d.soc > SOC_STOP THEN StopCharging(@) ELSE @]
  /\ UNCHANGED notLoop

\* a cycle with line 58 in force: start_charging when the controller is idle
LoopTickAfterStart ==
  /\ lp.pc = "tick"
  /\ LET started == IF lp.charging_control.charging THEN lp.charging_control
                    ELSE [lp.charging_control EXCEPT !.charging = TRUE]
         r == RunUpdate(started, lp.pack_voltage, lp.pack_current)
     IN lp' = [lp EXCEPT !.pc = "query", !.ticked = TRUE,
                         !.steps = Append(@, "tick"),
                         !.charging_control = r.self, !.request = r.ret]
  /\ UNCHANGED notLoop

\* lines 62-79: run_update; its setpoints are printed and go nowhere (line 75
\* is a comment), an exception is caught at line 77; the loop continues
LoopTick ==
  /\ lp.pc = "tick"
  /\ LET r == RunUpdate(lp.charging_control, lp.pack_voltage, lp.pack_current)
     IN lp' = [lp EXCEPT !.pc = "query", !.ticked = TRUE,
                         !.steps = Append(@, "tick"),
                         !.charging_control = r.self, !.request = r.ret]
  /\ UNCHANGED notLoop

\* lines 13-26: the serial port is open and the controller constructed
InitLoop ==
  lp = [pc |-> "query", response |-> <<>>, raw |-> <<>>, decoded |-> FALSE,
        ticked |-> FALSE, charging_control |-> ControllerInit,
        pack_soc |-> 0, pack_voltage |-> 0, pack_current |-> 0, request |-> NoOutcome,
        steps |-> <<>>, stop_called |-> FALSE]

NextLoop == LoopQuery \/ LoopCheck \/ LoopDecode \/ LoopTick

(***************************************************************************)
(* deltaq_canopen.py send_rpdos, lines 196-222, and                        *)
(* helper/deltaq_charger.py send_0x20a, lines 98-122: the RPDO1 payload.   *)
(* soc, vreq and ireq are in tenths, so that round() has halves to round.  *)
(***************************************************************************)
\* a clamp that lets every value through
clamp_unclamped(val, lo, hi) == val

\* clamp, line 41: max(lo, min(hi, val))
clamp(val, lo, hi) ==
  LET m == IF hi < val THEN hi ELSE val
  IN IF lo > m THEN lo ELSE m

\* int(round(num / den)) for den > 0: Python rounds a half to the even
\* neighbour
PyRound(num, den) ==
  LET q == num \div den
      r == num - q * den
  IN IF 2 * r < den THEN q
     ELSE IF 2 * r > den THEN q + 1
     ELSE IF q % 2 = 0 THEN q ELSE q + 1

\* lines 196-222, one pass of the loop with the thread's arguments and its
\* counter: the payload, or the exception of the first conversion that
\* refuses its value (bytes() a value outside 0..255, to_bytes(2) one
\* outside 0..0xFFFF).  batt_status is a parameter the body never reads.
rpdo1_data(soc, cycle_type, batt_status, vreq, ireq, count) ==
  LET soc_u8 == clamp(PyRound(soc, 10), 0, 100)
      cycle_u8 == clamp(cycle_type, 0, 255)
      batt_status_u8 == IF count = 0 THEN clamp(0, 0, 255) ELSE clamp(1, 0, 255)
      vreq_u16_256 == clamp(PyRound(vreq * 256, 10), 0, 65535)
      ireq_u16_16 == clamp(PyRound(ireq * 16, 10), 0, 65535)
  IN IF {vreq_u16_256, ireq_u16_16} \ (0..65535) # {}
     THEN [exc |-> "OverflowError", data |-> <<>>]
     ELSE IF {soc_u8, cycle_u8, batt_status_u8} \ (0..255) # {}
     THEN [exc |-> "ValueError", data |-> <<>>]
     ELSE [exc |-> "none",
           data |-> <<0, soc_u8, cycle_u8>> \o LEBytes(vreq_u16_256, 2)
                    \o LEBytes(ireq_u16_16, 2) \o <<batt_status_u8>>]

\* The fields of an RPDO1 payload as the charger's DBC reads them back:
\* Battery_SOC, Charge Cycle Type, the raw Voltage_Request (1/256 V) and
\* Battery_Current (1/16 A), Battery_Status.
unpack(data) ==
  [soc |-> data[2], cycle_type |-> data[3],
   vreq_raw |-> data[4] + 256 * data[5], ireq_raw |-> data[6] + 256 * data[7],
   batt_status |-> data[8]]

\* One payload is encoded: by a pass of send_rpdos' loop, for any arguments
\* of the thread and a counter of 0 or more, or by send_0x20a, whose line 102
\* reads self.counter, an attribute nothing has assigned.
Encode ==
  /\ \E soc \in {-50, 765, 1500}, cycle_type \in {0, 300}, vreq \in {-10, 823, 3000},
        ireq \in {-1, 50, 50000} :
       \/ \E batt_status \in {0, 1, 7}, count \in {0, 1} :
            enc' = [fn |-> "send_rpdos", soc |-> soc, cycle_type |-> cycle_type,
                    batt_status |-> batt_status, vreq |-> vreq, ireq |-> ireq,
                    counter |-> count,
                    out |-> rpdo1_data(soc, cycle_type, batt_status, vreq, ireq, count)]
       \/ enc' = [fn |-> "send_0x20a", soc |-> soc, cycle_type |-> cycle_type,
                  batt_status |-> NONE, vreq |-> vreq, ireq |-> ireq, counter |-> NONE,
                  out |-> [exc |-> "AttributeError", data |-> <<>>]]
  /\ UNCHANGED notEnc

InitEnc ==
  enc = [fn |-> "none", soc |-> 0, cycle_type |-> 0, batt_status |-> 0, vreq |-> 0,
         ireq |-> 0, counter |-> 0, out |-> [exc |-> "none", data |-> <<>>]]

vars == <<ccVars, remapVars, stopVars, monVars, ctlVars, sdoVars, decVars, loopVars,
         encVars>>

\* The components a specification leaves at rest.
InitRest ==
  /\ InitMon
  /\ InitCtl
  /\ InitSdo
  /\ InitDec
  /\ InitLoop
  /\ InitEnc

\* The charge controller under any sequence of start, stop and tick calls.
InitSpecCC ==
  /\ InitCC
  /\ RemapParked
  /\ StopParked
  /\ InitRest

SpecCC == InitSpecCC /\ [][NextCC]_vars

\* The remap tool against a charger that may abort any request.
InitSpecRemap ==
  /\ InitRemap
  /\ InitCC
  /\ StopParked
  /\ InitRest

SpecRemap == InitSpecRemap /\ [][NextRemap]_vars

InitSpecStop ==
  /\ InitStop
  /\ InitCC
  /\ RemapParked
  /\ InitRest

\* The simulator, or a ChargerController, with its threads and its stop path
\* under every interleaving.
SpecStop == InitSpecStop /\ [][NextStop]_vars

\* A ChargerController and the setpoints its owner publishes.
SpecSetpoints == InitSpecStop /\ [][NextSetpoints]_vars

\* Every program freshly constructed: the state each of the specifications
\* below starts its own program from.
InitAtRest ==
  /\ InitCC
  /\ RemapParked
  /\ StopParked
  /\ InitRest

\* The simulator's main() and its monitor thread against any heartbeats.
SpecMonitor == InitAtRest /\ [][NextMonitor]_vars

\* The simulator's main() with its RPDO sender and its monitor thread.
SpecThreads == InitAtRest /\ [][NextThreads]_vars

\* bringup_sequence against a charger that answers when it will.
SpecSdo == InitAtRest /\ [][NextSdo]_vars

\* convert_full_msg on lists of every length around its highest index.
SpecDecode == InitAtRest /\ [][Decode]_vars

\* main_charging.main() against any response of the BMS.
SpecLoop == InitAtRest /\ [][NextLoop]_vars

\* The RPDO1 encoders on arguments inside and outside the fields' ranges.
SpecEncode == InitAtRest /\ [][Encode]_vars

(***************************************************************************)
(* ChargeController claims (specification SpecCC).                         *)
(***************************************************************************)
CCSetpoints == Return(CHARGE_CURRENT_CC, PACK_MAX_VOLTAGE + CC_VOLTAGE_MARGIN)

\* The stage of the spec's ChargeState read off the controller's fields.
Stage(s) ==
  IF ~s.charging THEN (IF cmd = "none" THEN "Idle" ELSE "Stopped")
  ELSE IF s.stage = "CC" THEN "ConstantCurrent" ELSE "ConstantVoltage"

Rank(st) ==
  CASE st = "Idle" -> 0
    [] st = "ConstantCurrent" -> 1
    [] st = "ConstantVoltage" -> 2
    [] st = "Stopped" -> 3

\* C1: every tick returns setpoint_current in [0, cc_current] and
\* setpoint_voltage in [0, pack_max_voltage + margin].
C1_TickReturnsBoundedSetpoints ==
  call.op = "tick" =>
    /\ call.ret.kind = "return"
    /\ call.ret.cur \in 0..CHARGE_CURRENT_CC
    /\ call.ret.volt \in 0..(PACK_MAX_VOLTAGE + CC_VOLTAGE_MARGIN)

\* C2: stop() takes effect at once: charging is off when stop() returns, and
\* every tick between a stop() and the next start returns (0, 0).
C2_StopImmediate ==
  /\ (call.op = "stop" => ~self.charging)
  /\ (cmd = "stop" /\ call.op = "tick" => call.ret = Return(0, 0))

\* stop() was called while charging and the very next tick has returned.
C2_Witness ==
  /\ cmd = "stop" /\ cmdPre
  /\ call.op = "tick" /\ ticks = 1
  /\ call.argV < PACK_MAX_VOLTAGE
  /\ call.ret = Return(0, 0)

\* C3: once Stopped, a tick with no start in between returns (0, 0) and
\* leaves the controller's stage as it was, whatever the telemetry.
C3_StoppedStays ==
  (call.op = "tick" /\ Stage(call.pre) = "Stopped") =>
    /\ call.ret = Return(0, 0)
    /\ self = call.pre
    /\ Stage(self) = "Stopped"

\* A second tick after stop(), with a full pack and a live current observed.
C3_Witness ==
  /\ cmd = "stop" /\ cmdPre
  /\ call.op = "tick" /\ ticks >= 2
  /\ call.argV >= PACK_MAX_VOLTAGE /\ call.argI > CHARGE_CURRENT_CUTOFF
  /\ Stage(self) = "Stopped"

\* C4: a tick in ConstantCurrent moves to ConstantVoltage exactly when the
\* observed pack_voltage >= pack_max_voltage.
C4_CCToCVAtPackMax ==
  (call.op = "tick" /\ Stage(call.pre) = "ConstantCurrent") =>
    (Stage(self) = "ConstantVoltage" <=> call.argV >= PACK_MAX_VOLTAGE)

\* C5: a tick in ConstantVoltage (entered, per C4, once a charging update has
\* observed pack_voltage >= pack_max_voltage) with pack_current <=
\* cutoff_current stops the controller and returns (0, 0); with a higher
\* current the controller keeps charging.
C5_CVCutoff ==
  (call.op = "tick" /\ call.pre.charging /\ call.preFull) =>
    IF call.argI <= CHARGE_CURRENT_CUTOFF
    THEN ~self.charging /\ call.ret = Return(0, 0)
    ELSE self.charging /\ call.ret.kind = "return"

\* C6: a tick never moves the stage backwards in the order Idle,
\* ConstantCurrent, ConstantVoltage, Stopped, and never leaves Stopped.
C6_StageMonotonic ==
  call.op = "tick" =>
    /\ Rank(Stage(self)) >= Rank(Stage(call.pre))
    /\ (Stage(call.pre) = "Stopped" => Stage(self) = "Stopped")
    /\ (Stage(call.pre) = "Idle" => Stage(self) = "Idle")

\* A tick taken while charging, after a full pack was seen, below the cutoff.
C6_Witness ==
  /\ call.op = "tick" /\ call.pre.charging /\ call.preFull
  /\ call.argI <= CHARGE_CURRENT_CUTOFF
  /\ Stage(self) = "ConstantCurrent"

\* C7: after any start the controller is in ConstantCurrent, and the first
\* tick after it returns the ConstantCurrent setpoints.
C7_StartEntersCC ==
  /\ (call.op = "start" =>
        Stage(self) = "ConstantCurrent" /\ call.ret.kind = "none")
  /\ (cmd = "start" /\ call.op = "tick" /\ ticks = 1 => call.ret = CCSetpoints)

\* C36: the tick in which ConstantCurrent observes pack_voltage >=
\* pack_max_voltage still returns the ConstantCurrent setpoints; a tick that
\* follows it, with the current above the cutoff, returns the
\* ConstantVoltage setpoints.
C36_CVSetpointsOneTickLate ==
  /\ (call.op = "tick" /\ Stage(call.pre) = "ConstantCurrent" /\ ~call.preFull
        /\ call.argV >= PACK_MAX_VOLTAGE
        => call.ret = CCSetpoints)
  /\ (call.op = "tick" /\ call.pre.charging /\ call.preFull
        /\ call.argI > CHARGE_CURRENT_CUTOFF
        => call.ret = Return(CHARGE_CURRENT_CC + CV_CURRENT_EXTRA, PACK_MAX_VOLTAGE))

(***************************************************************************)
(* remap_rpdo claims (specification SpecRemap).                            *)
(***************************************************************************)
IsWrite(e) == e.kind = "write"

\* The SDO writes issued by the current activation of remap_rpdo.
Issued == SelectSeq(SubSeq(log, rm.began + 1, Len(log)), IsWrite)

\* The mandatory CANopen remap sequence for a call's arguments: disable,
\* transmission type, count 0, entries at subindex 1..n, count n, enable.
ExpectedWrites(r) ==
  LET comm == COMM_BASE + r.rpdo
      map == MAP_BASE + r.rpdo
      n == Len(r.entries)
  IN << <<comm, 1, [hi |-> 32768 + r.cobid \div 65536, lo |-> r.cobid % 65536]>>,
        <<comm, 2, [hi |-> 0, lo |-> r.tx]>>,
        <<map, 0, [hi |-> 0, lo |-> 0]>> >>
     \o [i \in 1..n |->
           <<map, i, [hi |-> r.entries[i][1],
                      lo |-> r.entries[i][2] * 256 + r.entries[i][3]]>>]
     \o << <<map, 0, [hi |-> 0, lo |-> n]>>,
           <<comm, 1, [hi |-> r.cobid \div 65536, lo |-> r.cobid % 65536]>> >>

\* C8: remap_rpdo issues its writes in the order disable, transmission type,
\* count 0, entries 1..n in list order, count n, enable; a write is issued
\* only after every earlier one has completed, and a call that returns has
\* issued them all.
C8_RemapWriteOrder ==
  rm.active =>
    LET w == Issued
        x == ExpectedWrites(rm)
    IN /\ Len(w) <= Len(x)
       /\ \A k \in 1..Len(w) : <<w[k].idx, w[k].sub, w[k].val>> = x[k]
       /\ \A k \in 1..(Len(w) - 1) : w[k].ok
       /\ (rm.phase = "returned" => Len(w) = Len(x) /\ w[Len(w)].ok)

\* main()'s second call, for RPDO2, has returned.
C8_Witness ==
  /\ rm.active /\ rm.phase = "returned" /\ rm.call = 2
  /\ Len(Issued) = Len(rm.entries) + 5

AbortedWrites == {k \in 1..Len(Issued) : ~Issued[k].ok}

\* C9 as claimed: once a write of remap_rpdo has been aborted, whichever it
\* is, no later write is issued and the PDO's COB-ID has bit 31 set.
C9_AbortLeavesDisabled ==
  rm.active =>
    \A k \in AbortedWrites :
      /\ k = Len(Issued)
      /\ Bit31(dev[rm.rpdo].cobid)

\* C9 as amended: once a write has been aborted no later write is issued;
\* if the aborted write came after the disable write the PDO's COB-ID has
\* bit 31 set, and if it was the disable write itself the COB-ID is the one
\* the device had before the call.
C9_AbortStopsRemap ==
  rm.active =>
    \A k \in AbortedWrites :
      /\ k = Len(Issued)
      /\ (k >= 2 => Bit31(dev[rm.rpdo].cobid))
      /\ (k = 1 => dev[rm.rpdo].cobid = rm.cobidBefore)

\* A mapping-entry write was aborted and main() has run to its end.
C9_Witness ==
  /\ rm.active /\ rm.phase = "aborted" /\ rm.i >= 2
  /\ mpc = "exit" /\ exc = "SdoAbortedError"
  /\ AbortedWrites = {Len(Issued)}
  /\ Bit31(dev[rm.rpdo].cobid)

\* The bit lengths of the first i entries of a field list, summed.
RECURSIVE BitsUpTo(_, _)
BitsUpTo(entries, i) == IF i = 0 THEN 0 ELSE BitsUpTo(entries, i - 1) + entries[i][3]

\* C24: remap_rpdo issues no mapping-entry write that brings the running
\* total of bit lengths above 64; for a field list whose total exceeds 64 it
\* issues neither the final mapping count nor the enabling COB-ID write, it
\* does not return, and main() ends with an exception.
C24_OverflowRejected ==
  rm.active =>
    LET w == Issued
        map == MAP_BASE + rm.rpdo
        comm == COMM_BASE + rm.rpdo
    IN /\ \A k \in 1..Len(w) :
            (w[k].idx = map /\ w[k].sub >= 1) => BitsUpTo(rm.entries, w[k].sub) <= 64
       /\ BitsUpTo(rm.entries, Len(rm.entries)) > 64 =>
            /\ \A k \in 1..Len(w) :
                 /\ ~(w[k].idx = map /\ w[k].sub = 0 /\ w[k].val # NoEntry)
                 /\ ~(w[k].idx = comm /\ w[k].sub = 1 /\ ~Bit31(w[k].val))
            /\ rm.phase # "returned"
            /\ (mpc = "exit" => exc # "none")

\* The 80-bit list was refused at its fifth entry: the disable, transmission
\* type and count-0 writes and the four entries that fit were stored, the
\* PDO is left disabled with count 0, and main() has ended with ValueError.
C24_Witness ==
  /\ rm.active /\ rm.entries = OverflowEntries
  /\ rm.phase = "valueerror" /\ rm.i = 5 /\ rm.total_bits = 80
  /\ Len(Issued) = 7 /\ \A k \in 1..7 : Issued[k].ok
  /\ dev[rm.rpdo].count = 0 /\ Bit31(dev[rm.rpdo].cobid)
  /\ mpc = "exit" /\ exc = "ValueError"

\* C33: when main() has verified after remap_rpdo calls that all returned,
\* what verify_rpdo read back for each remapped RPDO is the COB-ID of the
\* call with bit 31 clear, the transmission type of the call, and the
\* call's (index, subindex, bit_length) triples in their order.
C33_VerifyReadsBackWhatWasWritten ==
  \A k \in 1..Len(log) :
    (log[k].kind = "verify" /\ log[k].ok) =>
      \A c \in 1..Len(cfg.plan) :
        LET p == cfg.plan[c]
            v == log[k].val[p.rpdo + 1]
        IN /\ v.cobid = [hi |-> p.cobid \div 65536, lo |-> p.cobid % 65536]
           /\ ~Bit31(v.cobid)
           /\ v.ttype = p.tx
           /\ v.entries = p.entries

\* main() has verified after remapping RPDO2 alone to two entries, one of
\* them with subindex 3, and transmission type 1.
C33_Witness ==
  /\ cfg.plan[1].entries = ShortEntries
  /\ mpc = "exit" /\ exc = "none"
  /\ \E k \in 1..Len(log) :
       /\ log[k].kind = "verify" /\ log[k].ok
       /\ log[k].val[2].entries = << <<24592, 3, 16>>, <<24688, 0, 16>> >>
       /\ log[k].val[2].ttype = 1

\* C37: once a write of the RPDO1 remap has been aborted, main() issues no
\* write to RPDO2's parameters (0x1401, 0x1601), no verify and no
\* store-parameters request; when it has ended, its last request is the NMT
\* command back to OPERATIONAL, issued after the aborted write, and it ends
\* with the abort.
C37_Rpdo1AbortSkipsTheRest ==
  LET aborted == {k \in 1..Len(log) :
                    /\ IsWrite(log[k]) /\ ~log[k].ok
                    /\ log[k].idx \in {COMM_BASE, MAP_BASE}}
  IN aborted # {} =>
       /\ \A j \in 1..Len(log) :
            /\ log[j].kind \notin {"verify", "store"}
            /\ IsWrite(log[j]) => log[j].idx \in {COMM_BASE, MAP_BASE}
       /\ \A k \in aborted : \A j \in (k + 1)..Len(log) : log[j].kind = "nmt"
       /\ mpc = "exit" =>
            /\ exc = "SdoAbortedError"
            /\ log[Len(log)].kind = "nmt" /\ log[Len(log)].idx = 1
            /\ \A k \in aborted : k < Len(log)

\* main()'s RPDO1 remap was aborted at its second mapping entry and main()
\* has ended: RPDO2 still holds what it held, and --save was given.
C37_Witness ==
  /\ cfg.plan = MainPlan(cfg.node_id) /\ cfg.save
  /\ rm.call = 1 /\ rm.phase = "aborted" /\ rm.i = 2
  /\ mpc = "exit" /\ exc = "SdoAbortedError"
  /\ log[Len(log)].kind = "nmt" /\ log[Len(log)].idx = 1
  /\ dev[1].count = 1

(***************************************************************************)
(* Shutdown claims (specification SpecStop).                               *)
(***************************************************************************)
\* C10: once the stop call has returned (ChargerController.stop, or the
\* finally block of the simulator's main), no producer puts a further frame
\* on the bus, whatever the interleaving of the threads.
C10_NoFrameAfterStop == ~wire.late

\* The simulator's stop path returned while send_rpdos was still between its
\* stop_ev check and its send (the join timed out); the send then failed.
C10_Witness ==
  /\ scfg.prog = "simulator" /\ s_pc = "done"
  /\ wire.lateTry /\ r_pc = "exited"
  /\ hb_task = "stopped" /\ bus = "closed"

\* C11: once ChargerController.stop() has ended on a controller that may
\* send (read_only false), by returning or by raising, a zero-setpoint /
\* not-ready frame has been transmitted: stop never ends having skipped it.
C11_StopSendsZeroFrame ==
  (scfg.prog = "controller" /\ ~scfg.read_only /\ c_pc \in {"returned", "raised"})
    => wire.zero

\* The sender thread of a controller that may send (read_only false) has not
\* been ended by an exception while the controller has not been stopped.
SenderAlive ==
  (scfg.prog = "controller" /\ ~scfg.read_only /\ running) => t_pc # "crashed"

\* C14: with auto-bringup enabled (read_only false) run() keeps handling the
\* charger's heartbeats, and handling one puts an NMT Start on the bus
\* exactly when it is Pre-operational and the one before it was not: one
\* NMT Start per edge into Pre-operational, none for the rest of the run.
C14_NmtStartOncePerEdge ==
  /\ SenderAlive
  /\ (scfg.prog = "controller" /\ ~scfg.read_only /\ hb.last = "Pre-operational")
       => (hb.sent <=> hb.prev # "Pre-operational")

C17_TransmitsLatestSetpoints ==
  (scfg.prog = "controller" /\ ~scfg.read_only /\ running
     /\ setp.vby >= 1 /\ setp.aby >= 1)
    => \/ wire.setpoints = <<setp.volts, setp.amps>>
       \/ (wire.setpoints = <<>> /\ t_pc # "crashed")

\* C18: a send_rpdos transmit that failed with a CAN error does not end the
\* sender: after it the thread is on its way to the next period's frame,
\* and it ends only through the stop_ev check of its loop.
C18_FailedSendSkipped ==
  wire.dropped =>
    /\ r_pc \in {"sleep", "check", "send", "exited"}
    /\ (r_pc = "exited" => stop_ev)

\* A transmit failed while the bus was open and nothing had asked the thread
\* to stop, and a later period's frame went out.
C18_Witness ==
  /\ wire.dropped /\ wire.resumed
  /\ wire.last = "rpdo1" /\ ~stop_ev /\ bus = "open"
  /\ r_pc = "sleep"

(***************************************************************************)
(* SDO client claims (specification SpecSdo).                              *)
(***************************************************************************)
\* C12: a call of sdo_download that has ended reports what became of its
\* request: the positive response, AbortCode(code) for an abort, or Timeout;
\* it has not returned while its request is still unanswered unless with
\* Timeout.
C12_SdoDownloadAwaitsResponse ==
  sdo_call.made =>
    /\ sdo_call.ret \in {"Ok", "AbortCode", "Timeout", "CanError"}
    /\ (<<sdo_call.index, sdo_call.subindex>> \in pending => sdo_call.ret = "Timeout")

\* C13: at most one SDO request to the charger awaits its response at any
\* time.
C13_OneOutstandingSdo == Cardinality(pending) <= 1

\* C28: an sdo_download call that has sent put exactly one frame on the
\* bus, on COB-ID 0x600 + the charger's node id (0x60A), of 8 bytes: the
\* command specifier 0x2F, 0x2B or 0x23 for size 1, 2 or 4, the index low
\* byte first, the subindex, then the value least significant byte first,
\* zero-padded to 4 bytes.
C28_SdoDownloadFrame ==
  (sdo_call.made /\ sdo_call.ret = "None") =>
    LET d == sdo_call.data
        n == sdo_call.size
    IN /\ sdo_call.sent = 1
       /\ sdo_call.cobid = 1546
       /\ Len(d) = 8
       /\ \A k \in 1..8 : d[k] \in 0..255
       /\ d[1] = (CASE n = 1 -> 47 [] n = 2 -> 43 [] n = 4 -> 35)
       /\ d[2] + 256 * d[3] = sdo_call.index
       /\ d[4] = sdo_call.subindex
       /\ \A k \in (n + 1)..4 : d[4 + k] = 0
       /\ d[5] + (IF n >= 2 THEN 256 * d[6] ELSE 0) = sdo_call.value.lo
       /\ (IF n = 4 THEN d[7] + 256 * d[8] ELSE 0) = sdo_call.value.hi

\* bringup_sequence has sent its 4-byte download of 84.0 V * 256 = 0x5400
\* to 0x2271:00 and, after it, its 2-byte download to 0x6070:00.
C28_Witness ==
  /\ sdo_call.made /\ sdo_call.ret = "None"
  /\ sdo_call.size = 2 /\ sdo_call.data = <<43, 112, 96, 0, 80, 0, 0, 0>>
  /\ bup.vreq = 840 /\ bup.step = 3

(***************************************************************************)
(* Monitor claim (specification SpecMonitor).                              *)
(***************************************************************************)
\* The NodeState the monitor tracks: the text of its last_state.
Tracked(state) == IF state = NONE THEN "Unknown" ELSE MonStateText(state)

\* C15: after a heartbeat byte of the table the tracked state is the
\* table's state for it; after any other byte it is what it was before.
C15_MonitorFollowsTable ==
  mon.byte # NONE =>
    IF mon.byte \in {0, 4, 5, 127}
    THEN Tracked(mon.last_state) = MonStateText(mon.byte)
    ELSE Tracked(mon.last_state) = Tracked(mon.before)

(***************************************************************************)
(* Frame decoder claim (specification SpecDecode).                         *)
(***************************************************************************)
\* C19: convert_full_msg called on a list whose length is not 140 ends with
\* WrongFrameLength; it returns a snapshot for no shorter or longer list.
C19_DecodeRejectsWrongLength ==
  (dec.out.kind # "none" /\ Len(dec.frame) # FRAME_LEN)
    => dec.out.kind = "WrongFrameLength"

(***************************************************************************)
(* Frame decoder claims on the fields (specification SpecDecode).          *)
(***************************************************************************)
\* C21: when the charge-MOS byte (offset 103), the discharge-MOS byte (104)
\* or the balance byte (105) of a frame that holds all three is not a key of
\* its table (0..22 for the two MOS tables, 0..4 and 10 for the balance
\* table, so balance codes 5..9 are not), convert_full_msg ends with the
\* lookup's exception; a snapshot it returns carries, for each of the three,
\* a key of the table and the table's description of it, never another text.
C21_UnknownStatusFails ==
  (dec.out.kind # "none" /\ Len(dec.frame) >= 106) =>
    /\ (\/ At(dec.frame, 103) \notin 0..22
        \/ At(dec.frame, 104) \notin 0..22
        \/ At(dec.frame, 105) \notin {0, 1, 2, 3, 4, 10}) => dec.out.kind = "KeyError"
    /\ dec.out.kind = "return" =>
          /\ dec.out.balance_status.codes \in {0, 1, 2, 3, 4, 10}
          /\ dec.out.balance_status.descriptions # "Unknown"
          /\ dec.out.charge_mos_status.descriptions
               = charging_mos_status[At(dec.frame, 103)]
          /\ dec.out.discharge_mos_status.descriptions
               = discharge_mos_state[At(dec.frame, 104)]

\* A 140-byte frame whose MOS bytes are keys and whose balance byte is 5 has
\* been refused.
C21_Witness ==
  /\ Len(dec.frame) = FRAME_LEN
  /\ At(dec.frame, 103) = 0 /\ At(dec.frame, 104) = 0 /\ At(dec.frame, 105) = 5
  /\ dec.out.kind = "KeyError"

\* The four bytes from offset `first` on read with the byte at the lowest
\* offset least significant, as two 16-bit halves.
LittleEndian32(hex_array, first) ==
  W(At(hex_array, first + 3) * 256 + At(hex_array, first + 2),
    At(hex_array, first + 1) * 256 + At(hex_array, first))

\* C22: in the snapshot of a 140-byte frame the physical, remaining and
\* cyclic capacity are the 4-byte little-endian unsigned integers at offsets
\* 75, 79 and 83 (in micro-ampere-hours, the unit of 1e-6 Ah).
C22_CapacitiesLittleEndian ==
  (dec.out.kind = "return" /\ Len(dec.frame) = FRAME_LEN) =>
    /\ dec.out.physical_capacity_ah = LittleEndian32(dec.frame, 75)
    /\ dec.out.remaining_capacity_ah = LittleEndian32(dec.frame, 79)
    /\ dec.out.cyclic_capacity_ah = LittleEndian32(dec.frame, 83)

\* C23: in the snapshot of a 140-byte frame pack_voltage is, in tenths of a
\* volt, the unsigned 16-bit value with byte 4 as its high and byte 5 as its
\* low byte; bytes 0x03 0xE8 give 1000 tenths, 100.0 V.
C23_PackVoltageBigEndian ==
  (dec.out.kind = "return" /\ Len(dec.frame) = FRAME_LEN) =>
    /\ dec.out.pack_voltage = dec.frame[5] * 256 + dec.frame[6]
    /\ (dec.frame[5] = 3 /\ dec.frame[6] = 232) => dec.out.pack_voltage = 1000

\* A 140-byte frame with bytes 0x03 0xE8 at offsets 4 and 5 has been decoded.
C23_Witness ==
  /\ Len(dec.frame) = FRAME_LEN
  /\ dec.frame[5] = 3 /\ dec.frame[6] = 232
  /\ dec.out.kind = "return" /\ dec.out.pack_voltage = 1000

(***************************************************************************)
(* RPDO1 encoding claims (specification SpecEncode).                       *)
(***************************************************************************)
\* C25: whatever the setpoints, encoding never ends with the exception of an
\* out-of-range value, and a payload that has been built is 8 bytes, each
\* within 0..255, with the SOC byte within 0..100 and the raw voltage and
\* raw current within 0..0xFFFF: arguments below a range give its lower end
\* and arguments above it its upper end.
C25_SetpointsClamped ==
  enc.fn # "none" =>
    /\ enc.out.exc \notin {"OverflowError", "ValueError"}
    /\ enc.out.exc = "none" =>
          /\ Len(enc.out.data) = 8
          /\ \A k \in 1..8 : enc.out.data[k] \in 0..255
          /\ enc.out.data[2] \in 0..100
          /\ (enc.soc >= 1000 => enc.out.data[2] = 100)
          /\ (enc.soc <= 0 => enc.out.data[2] = 0)
          /\ (enc.vreq >= 2560 => enc.out.data[4] = 255 /\ enc.out.data[5] = 255)
          /\ (enc.vreq <= 0 => enc.out.data[4] = 0 /\ enc.out.data[5] = 0)
          /\ (enc.ireq >= 40960 => enc.out.data[6] = 255 /\ enc.out.data[7] = 255)
          /\ (enc.ireq <= 0 => enc.out.data[6] = 0 /\ enc.out.data[7] = 0)
    /\ enc.fn = "send_rpdos" => enc.out.exc = "none"

\* send_rpdos has encoded 150 %, 300 V, -0.1 A and cycle type 300.
C25_Witness ==
  /\ enc.fn = "send_rpdos"
  /\ enc.soc = 1500 /\ enc.vreq = 3000 /\ enc.ireq = -1 /\ enc.cycle_type = 300
  /\ enc.counter = 1
  /\ enc.out = [exc |-> "none", data |-> <<0, 100, 255, 255, 255, 0, 0, 1>>]

\* The arguments are within their fields' ranges.
InRange ==
  /\ enc.soc \in 0..1000 /\ enc.cycle_type \in 0..255 /\ enc.batt_status \in 0..255
  /\ enc.vreq * 256 <= 65535 * 10 /\ enc.vreq >= 0
  /\ enc.ireq * 16 <= 65535 * 10 /\ enc.ireq >= 0

\* C26: for in-range values, the fields read back from the payload
\* send_rpdos packs equal the values packed, each within one step of its
\* scale (1 %, 1/256 V, 1/16 A; 1 for the cycle type and the status).
C26_RoundTrip ==
  (enc.fn = "send_rpdos" /\ InRange) =>
    /\ enc.out.exc = "none"
    /\ LET u == unpack(enc.out.data)
           Near(a, b, step) == a - b <= step /\ b - a <= step
       IN /\ Near(10 * u.soc, enc.soc, 10)
          /\ u.cycle_type = enc.cycle_type
          /\ Near(10 * u.vreq_raw, 256 * enc.vreq, 10)
          /\ Near(10 * u.ireq_raw, 16 * enc.ireq, 10)
          /\ u.batt_status = enc.batt_status

\* C27: byte 7 of the payload send_rpdos builds is its batt_status
\* argument, clamped to 0..255.
C27_StatusByteAsGiven ==
  (enc.fn = "send_rpdos" /\ enc.out.exc = "none") =>
    enc.out.data[8] = (IF enc.batt_status < 0 THEN 0
                       ELSE IF enc.batt_status > 255 THEN 255 ELSE enc.batt_status)

(***************************************************************************)
(* Control loop claim (specification SpecLoop).                            *)
(***************************************************************************)
\* C20: a response of ser.read whose length is not 140 stays as it was read
\* (neither padded nor truncated), is not handed to convert_full_msg, is
\* followed by no run_update in its cycle, and leaves the loop at its next
\* query.
C20_WrongLengthSkipsCycle ==
  Len(lp.raw) # FRAME_LEN =>
    /\ lp.response = lp.raw
    /\ ~lp.decoded /\ ~lp.ticked
    /\ lp.pc \in {"check", "query"}

\* A 139-byte response has been checked, after a cycle that ran to its tick,
\* and the loop is about to send its next query.
C20_Witness ==
  /\ Len(lp.raw) = 139 /\ lp.pc = "query"
  /\ lp.request.kind = "return"
  /\ ~lp.decoded /\ ~lp.ticked

\* s is a prefix of t
IsPrefix(s, t) == Len(s) <= Len(t) /\ \A k \in 1..Len(s) : s[k] = t[k]

\* C29 as claimed: the steps of a cycle come in the order acquire, decode,
\* tick, publish, stop check: the stop condition of a cycle is evaluated
\* after that cycle's tick.
C29_StopCheckedAfterTick ==
  IsPrefix(lp.steps, <<"acquire", "decode", "tick", "publish", "stop_check">>)

\* C29 as amended: the steps of a cycle come in the order acquire, decode,
\* stop check, tick: the stop condition of a cycle is evaluated before that
\* cycle's tick, and a cycle whose stop condition triggers has no tick.
C29_StopCheckedBeforeTick ==
  /\ IsPrefix(lp.steps, <<"acquire", "decode", "stop_check", "tick">>)
  /\ lp.ticked => (Len(lp.steps) = 4 /\ lp.pack_soc <= SOC_STOP)
  /\ lp.pc = "exit" => (lp.steps = <<"acquire", "decode", "stop_check">> /\ ~lp.ticked)

\* A cycle has run to its tick and the loop is at its next query.
C29_Witness ==
  /\ lp.steps = <<"acquire", "decode", "stop_check", "tick">>
  /\ lp.pc = "query" /\ lp.ticked /\ lp.pack_soc = 50

\* C30: once the stop condition of a cycle has been evaluated, if the
\* decoded SOC is above the threshold stop_charging has been called and a
\* zero setpoint has gone out on the CAN bus; if it is at or below the
\* threshold neither has happened and the loop has not ended.
C30_StopSendsZeroSetpoint ==
  (Len(lp.steps) >= 3 /\ lp.steps[3] = "stop_check") =>
    IF lp.pack_soc > SOC_STOP
    THEN lp.stop_called /\ ~lp.charging_control.charging /\ wire.zero
    ELSE ~lp.stop_called /\ ~wire.zero /\ lp.pc # "exit"

(***************************************************************************)
(* Receive loop claims (specifications SpecStop and SpecMonitor).          *)
(***************************************************************************)
\* C31: no frame received ends the receive loop it was received by: run()
\* goes on to its next pass after whatever process_received_message was
\* handed.
C31_FrameNeverEndsReceiveLoop == ~hb.fatal

\* C32: the monitor's tracked state differs from what it was before the
\* last receive only if that receive returned a frame on COB-ID 0x700 + the
\* charger's node id (0x70A) with at least one data byte; after a frame on
\* any other COB-ID, a frame without data or a timeout it is unchanged.
C32_OnlyChargerHeartbeatChangesState ==
  /\ mon.last_state # mon.rxBefore => (mon.rx.id = 1802 /\ Len(mon.rx.data) >= 1)
  /\ (mon.rx.id # 1802 \/ Len(mon.rx.data) = 0) => mon.last_state = mon.rxBefore

\* After the charger's heartbeat set the tracked state to Operational, the
\* simulator's own heartbeat 0x701 [04] was received and left it there.
C32_Witness ==
  /\ mon.rx = [id |-> 1793, data |-> <<4>>]
  /\ mon.last_state = 5 /\ mon.rxBefore = 5 /\ mon.byte = 5
  /\ mon.pc = "check"

(***************************************************************************)
(* Thread termination and start-up order of the simulator (specification   *)
(* SpecThreads).                                                           *)
(***************************************************************************)
\* The steps a thread still has to take before it ends once stop_ev is set:
\* the sender finishes its pass (send, sleep until the next period, check),
\* the monitor its receive (recv with its 0.2 s timeout, check).
RpdoStepsLeft ==
  CASE r_pc = "send" -> 3 [] r_pc = "sleep" -> 2 [] r_pc = "check" -> 1 [] OTHER -> 0
MonStepsLeft ==
  CASE mon.pc = "recv" -> 2 [] mon.pc = "check" -> 1 [] OTHER -> 0

\* C34: once stop_ev is set, a thread that has not ended is never blocked
\* (its next step can be taken: each of its waits ends by itself), and every
\* step it takes brings it nearer to its end: the sender ends within three
\* steps, the monitor within two.
C34_ThreadsEndAfterStop ==
  /\ [](stop_ev =>
         /\ (RpdoStepsLeft > 0 =>
               ENABLED (RpdoCheck \/ RpdoSend \/ RpdoSendFails \/ RpdoSleep))
         /\ (MonStepsLeft > 0 => ENABLED (MonCheck \/ MonRecvHeartbeat)))
  /\ [][stop_ev =>
          /\ (r_pc' # r_pc => RpdoStepsLeft' < RpdoStepsLeft)
          /\ (mon'.pc # mon.pc => MonStepsLeft' < MonStepsLeft)]_vars

\* Both threads have ended through their stop_ev checks, the sender after
\* frames of its own and the monitor after the charger's heartbeat, and
\* main() has shut the bus down.
C34_Witness ==
  /\ stop_ev /\ s_pc = "done" /\ bus = "closed"
  /\ r_pc = "exited" /\ counter >= 2
  /\ mon.pc = "exited" /\ mon.last_state = 5

\* C35: in the periodic RPDO1 sender every frame after the first one sent
\* carries Battery_Status 1, and a frame that carries 0 is the first one.
C35_StatusZeroOnlyInFirstFrame ==
  /\ wire.nth = "later" => wire.status = 1
  /\ wire.status = 0 => wire.nth = "first"

\* C38: in the simulator no RPDO frame goes out, and the sender thread does
\* not run, before nmt_start_charger has sent the NMT Start command and
\* returned.
C38_NoRpdoBeforeNmtStart ==
  scfg.prog = "simulator" /\ (wire.nth # "none" \/ r_pc # "new")
    => wire.nmt /\ s_pc \notin {"init", "nmt"}

\* The sender's first frame is on the bus, after the NMT Start.
C38_Witness ==
  /\ scfg.prog = "simulator" /\ wire.nmt
  /\ wire.nth = "first" /\ wire.last = "rpdo1" /\ wire.status = 0

(***************************************************************************)
(* main_charging control loop claim (specification SpecLoop).              *)
(***************************************************************************)
\* C39: main_charging never starts its charge controller, and the tick of
\* every cycle returns the setpoints (0, 0) whatever was decoded.
C39_LoopRequestsZero ==
  /\ ~lp.charging_control.charging
  /\ (lp.ticked => lp.request = Return(0, 0))

\* A cycle has ticked on a pack decoded at more than PACK_MAX_VOLTAGE with a
\* charge current flowing.
C39_Witness ==
  /\ lp.ticked /\ lp.pc = "query"
  /\ lp.pack_voltage > PACK_MAX_VOLTAGE /\ lp.pack_current # 0
  /\ lp.request = Return(0, 0)

====
